---- MODULE Spec2Model ----
(***************************************************************************)
(* Model of the human-RPC SDK client (x402-solana, main-app/sdk).          *)
(*                                                                         *)
(* Part 1: ReiteratorManager (human_rpc_sdk/reiterator.py), the bounded    *)
(* retry/backoff controller.  One run of execute_with_retry is split at    *)
(* the points where it blocks: the call of task_func and time.sleep.       *)
(*                                                                         *)
(* Delays are whole numbers of a time unit (the code holds them as floats; *)
(* it only multiplies them by small integers and takes minima, which is    *)
(* exact on the values used here).                                         *)
(***************************************************************************)
EXTENDS Integers, Sequences, FiniteSets, TLC

(***************************************************************************)
(* Bounds of the model.                                                    *)
(***************************************************************************)
\* largest max_attempts a reiterator is constructed with
MaxAttemptsBound == 3
\* largest base_delay a reiterator is constructed with
MaxBaseDelay == 2
\* number of runs of execute_with_retry on one reiterator instance
MaxRuns == 2

\* default of max_delay in ReiteratorManager.__init__
DefaultMaxDelay == 60

(***************************************************************************)
(* Python values.  A value is a record of its type and its text, so that   *)
(* values of different Python types can be compared.                       *)
(***************************************************************************)
PyNone == [ty |-> "NoneType", val |-> "None"]
PyStr(s) == [ty |-> "str", val |-> s]
PyBool(b) == [ty |-> "bool", val |-> IF b THEN "True" ELSE "False"]
PyInt(s) == [ty |-> "int", val |-> s]
\* marks a key that a dict does not hold
Absent == [ty |-> "absent", val |-> ""]

\* the keys of a result dict that the reiterator reads
ResultKeys == {"sentiment", "decision", "approved", "consensus", "task_id"}

NoItems == [k \in ResultKeys |-> Absent]

\* a dict holding exactly the given items
PyDict(items) == [ty |-> "dict", items |-> items]
\* a value that is not a dict (a str here), as task_func may return
PyNonDict == [ty |-> "str", items |-> NoItems]
\* None, as a result value (the initial last_result)
PyNoResult == [ty |-> "NoneType", items |-> NoItems]

\* isinstance(result, dict)
IsDict(result) == result.ty = "dict"

\* dict.get(key, default)
Get(result, key, default) ==
    IF result.items[key] = Absent THEN default ELSE result.items[key]

\* str.lower() on the strings of the model
Lower(s) ==
    CASE s = "NEGATIVE" -> "negative"
      [] s = "Negative" -> "negative"
      [] s = "Reject" -> "reject"
      [] s = "REFUSE" -> "refuse"
      [] s = "NO" -> "no"
      [] s = "No" -> "no"
      [] s = "POSITIVE" -> "positive"
      [] s = "Positive" -> "positive"
      [] s = "UNKNOWN" -> "unknown"
      [] OTHER -> s

(***************************************************************************)
(* State of one ReiteratorManager and of the run in progress on it.        *)
(***************************************************************************)
VARIABLES
    \* configuration (reiterator.py:57-60)
    max_attempts, backoff_strategy, base_delay, max_delay,
    \* runtime state (reiterator.py:63-68)
    current_attempt, total_retries, last_retry_time,
    current_task_id, last_result, active,
    \* position of the caller's thread in execute_with_retry
    pc,
    \* locals of execute_with_retry (reiterator.py:155-156)
    original_args, original_kwargs,
    \* what the caller and task_func observe of the run in progress or, once
    \* it has ended, of the last run; reset() starts the record afresh
    given,            \* the arguments the caller passed to execute_with_retry
    calls,            \* the arguments of every call of task_func, in order
    outcomes,         \* how every call of task_func ended, in order
    sleeps,           \* the argument of every time.sleep, in order
    run_result,       \* how the last run (or reset) ended
    retries_at_start, \* total_retries when the run began (or at the reset)
    runs              \* runs started so far on this instance

cfg_vars == <<max_attempts, backoff_strategy, base_delay, max_delay>>
run_vars == <<current_attempt, total_retries, last_retry_time,
              current_task_id, last_result, active>>
obs_vars == <<given, calls, outcomes, sleeps, run_result, retries_at_start, runs>>
reiterator_vars == <<cfg_vars, run_vars, pc, original_args, original_kwargs, obs_vars>>

(***************************************************************************)
(* Single calls of the constructor and of the methods of                   *)
(* ReiteratorManager that do not run the task.                             *)
(***************************************************************************)
VARIABLES
    applied           \* the last such call: its arguments and what it gave

unit_vars == <<applied>>

(***************************************************************************)
(* State of one call of AutoAgent.request (agent.py:169-264).              *)
(***************************************************************************)
VARIABLES
    req_pc,           \* position of the caller's thread in request
    req_args,         \* method, url, headers and body given to request
    headers,          \* the headers dict request works on (agent.py:192-193)
    responses,        \* the responses received: response and retry_response
    invoice,          \* the parsed invoice (agent.py:208)
    serialized_tx,    \* what build_payment_transaction gave (agent.py:223)
    \* what the server, the collaborators and the caller observe
    sent,             \* every HTTP request sent through the session, in order
    collaborators,    \* calls of the invoice parser, the wallet, the builder
    req_result,       \* how the last call of request ended
    req_calls         \* calls of request made so far

request_vars == <<req_pc, req_args, headers, responses, invoice, serialized_tx,
                  sent, collaborators, req_result, req_calls>>

(***************************************************************************)
(* State of one call of AutoAgent._poll_task_status (agent.py:530-614).    *)
(***************************************************************************)
VARIABLES
    poll_pc,          \* position of the caller's thread in _poll_task_status
    poll_args,        \* task_id, max_wait_seconds and poll_interval
    now,              \* time.time()
    start_time,       \* start_time (agent.py:555)
    poll_result,      \* how the call ended
    \* what the server and the clock observe
    queries,          \* status queries issued so far (calls of self.get)
    poll_sleeps,      \* the argument of every time.sleep of the call, in order
    wallet_calls      \* calls of wallet.get_signer made by the queries that ended

poll_vars == <<poll_pc, poll_args, now, start_time, poll_result, queries,
               poll_sleeps, wallet_calls>>

(***************************************************************************)
(* State of one AutoAgent as ask_human_rpc, enable_reiterator and          *)
(* disable_reiterator use it (agent.py:266-372, 616-637).  The variables   *)
(* of the reiterator above are those of self.reiterator once it exists.    *)
(***************************************************************************)
VARIABLES
    reiterator_exists,  \* self.reiterator is not None
    reiterator_enabled, \* self.reiterator_enabled
    ask_pc,             \* position of the caller's thread in ask_human_rpc
    ask_context,        \* the context given to ask_human_rpc
    ask_runs,           \* runs of the reiterator when ask_human_rpc was called
    task_pc,            \* position of the thread in execute_task
    task_outcome,       \* how the last call of execute_task ended
    ask_result,         \* how the last call of ask_human_rpc ended
    \* what the server and the caller observe
    constructions,      \* ReiteratorManager instances made by this agent
    executions,         \* calls of execute_task in this call of ask_human_rpc
    submits,            \* calls of self.post in this call of ask_human_rpc
    polls,              \* calls of _poll_task_status in this call
    ask_calls,          \* calls of ask_human_rpc made so far
    disabled_in_run,    \* disable_reiterator was called during this call
    last_call           \* the method of the agent that took the last step

facade_vars == <<reiterator_exists, reiterator_enabled, ask_pc, ask_context,
                 ask_runs, task_pc, task_outcome, ask_result, constructions,
                 executions, submits, polls, ask_calls, disabled_in_run,
                 last_call>>

(***************************************************************************)
(* State of the session management of one AutoAgent (agent.py:374-461):    *)
(* the thread that calls terminate_session and the heartbeat thread, which *)
(* share self.session_id and self._shutdown_event.                         *)
(***************************************************************************)
VARIABLES
    session_id,         \* self.session_id
    shutdown_event,     \* self._shutdown_event.is_set()
    heartbeat_pc,       \* position of the heartbeat thread in _heartbeat_worker
    terminate_pc,       \* position of the caller's thread in terminate_session
    \* what the server and the caller observe
    heartbeats,         \* session requests (POST) sent by the heartbeat thread
    late_heartbeats,    \* those sent after terminate_session had returned
    deletions,          \* termination requests (DELETE) sent for the session
    terminations        \* calls of terminate_session that have returned

session_vars == <<session_id, shutdown_event, heartbeat_pc, terminate_pc,
                  heartbeats, late_heartbeats, deletions, terminations>>

\* what the reiterator's methods leave alone
outside_reiterator == <<unit_vars, request_vars, poll_vars, facade_vars,
                        session_vars>>
\* what the single calls leave alone
outside_unit == <<reiterator_vars, request_vars, poll_vars, facade_vars,
                  session_vars>>
\* what request leaves alone, called on its own
outside_request == <<reiterator_vars, unit_vars, poll_vars, facade_vars,
                     session_vars>>

vars == <<reiterator_vars, unit_vars, request_vars, poll_vars, facade_vars,
          session_vars>>

Strategies == {"exponential", "linear", "fixed"}

\* the validation of ReiteratorManager.__init__ (the arguments are numbers here)
ValidConfig(ma, bs, bd, md) ==
    /\ ~(ma < 1)
    /\ bs \in Strategies
    /\ ~(bd <= 0)
    /\ ~(md < bd)

Min(a, b) == IF a <= b THEN a ELSE b

RECURSIVE Pow2(_)
Pow2(n) == IF n <= 0 THEN 1 ELSE 2 * Pow2(n - 1)

\* calculate_delay whose linear delay grows from zero
calculate_delay_linear_from_zero(attempt_count) ==
    LET delay ==
          IF backoff_strategy = "fixed" THEN base_delay
          ELSE IF backoff_strategy = "linear" THEN base_delay * attempt_count
          ELSE base_delay * Pow2(attempt_count)
    IN Min(delay, max_delay)

\* ReiteratorManager.calculate_delay
calculate_delay(attempt_count) ==
    LET delay ==
          IF backoff_strategy = "fixed" THEN base_delay
          ELSE IF backoff_strategy = "linear" THEN base_delay * (attempt_count + 1)
          ELSE IF backoff_strategy = "exponential" THEN base_delay * Pow2(attempt_count)
          ELSE base_delay * Pow2(attempt_count)
    IN Min(delay, max_delay)

\* negative_sentiments holding the words of both lists
negative_vocabulary ==
    {"negative", "reject", "disapprove", "deny", "refuse", "no"}

negative_sentiments == {"negative", "reject", "disapprove", "deny", "refuse"}
negative_decisions == {"reject", "deny", "disapprove", "negative", "no"}

\* ReiteratorManager.should_retry.  The result is [raised, value]: raised holds
\* when .lower() is applied to a value that is not a str (AttributeError).
should_retry(result, attempt_count) ==
    LET sentiment == Get(result, "sentiment", PyStr(""))
        decision == Get(result, "decision", PyStr(""))
        approved == Get(result, "approved", PyBool(TRUE))
        consensus == Get(result, "consensus", PyStr("positive"))
        Ret(b) == [raised |-> FALSE, value |-> b]
        Raise == [raised |-> TRUE, value |-> FALSE]
    IN  IF attempt_count >= max_attempts THEN Ret(FALSE)
        ELSE IF ~IsDict(result) THEN Ret(FALSE)
        ELSE IF sentiment.ty # "str" THEN Raise
        ELSE IF decision.ty # "str" THEN Raise
        ELSE IF Lower(sentiment.val) \in negative_sentiments THEN Ret(TRUE)
        ELSE IF Lower(decision.val) \in negative_decisions THEN Ret(TRUE)
        ELSE IF approved = PyBool(FALSE) THEN Ret(TRUE)
        ELSE IF consensus.ty # "str" THEN Raise
        ELSE Ret(Lower(consensus.val) = "negative")

(***************************************************************************)
(* What task_func may do when called.                                      *)
(***************************************************************************)
VerdictNegative ==
    PyDict([NoItems EXCEPT !["sentiment"] = PyStr("negative"),
                           !["task_id"] = PyStr("task_1")])
VerdictPositive ==
    PyDict([NoItems EXCEPT !["sentiment"] = PyStr("positive"),
                           !["task_id"] = PyStr("task_2")])
\* a result whose sentiment is null
VerdictNullSentiment == PyDict([NoItems EXCEPT !["sentiment"] = PyNone])

\* a result that is negative by its decision and carries no task id
VerdictRejected == PyDict([NoItems EXCEPT !["decision"] = PyStr("reject")])

Verdicts ==
    {VerdictNegative, VerdictRejected, VerdictPositive, VerdictNullSentiment, PyNonDict}

\* exception classes task_func may raise: an ordinary Exception, the
\* reiterator's own two classes, and a BaseException that is no Exception
ExceptionKinds ==
    {"Exception", "ReiteratorMaxAttemptsError", "ReiteratorRateLimitError",
     "KeyboardInterrupt"}

\* arguments a caller passes to execute_with_retry
GivenArguments ==
    { [args |-> <<7>>, kwargs |-> [text |-> "a"]],
      [args |-> <<>>, kwargs |-> [text |-> "b"]] }

NoRun == [type |-> "none", value |-> PyNoResult, cause |-> "", line |-> 0]
\* the run returned value (reiterator.py:175)
Returned(value) == [type |-> "return", value |-> value, cause |-> "", line |-> 175]
\* the run raised an error of class type, from the given line of reiterator.py
Raised(type, value, cause, line) ==
    [type |-> type, value |-> value, cause |-> cause, line |-> line]

\* no single call has been made
NoCall == [fn |-> "none"]
UnitUnused == applied = NoCall

(***************************************************************************)
(* Values of AutoAgent.request: headers, bodies, responses.                *)
(***************************************************************************)
\* a Python number: its type (int or float) and its value, a whole number
PyNum(ty, n) == [ty |-> ty, n |-> n]
\* float("nan")
NaN == [ty |-> "nan", n |-> 0]

\* the header names of the model
HeaderNames == {"Accept", "Content-Type", "X-PAYMENT"}
HeaderAbsent == [kind |-> "absent"]
HeaderText(s) == [kind |-> "text", text |-> s]
\* an empty dict of headers
NoHeaders == [h \in HeaderNames |-> HeaderAbsent]

\* the keys of an invoice that the SDK reads (invoices.py)
InvoiceKeys ==
    {"amount", "amountSOL", "currency", "recipient", "recipientWallet",
     "tokenAccount", "mint", "network", "cluster", "reference"}
NoFields == [k \in InvoiceKeys |-> Absent]

\* the body of a response: text that is JSON for an object with the given
\* fields, or text that is not JSON
JsonBody(data) == [json |-> TRUE, data |-> data]
NotJsonBody == [json |-> FALSE, data |-> NoFields]

Response(status, body) == [status_code |-> status, text |-> body]
NoRequest == [method |-> "", url |-> "", headers_given |-> FALSE,
              headers |-> NoHeaders, body |-> ""]
NoInvoice == [invoice_data |-> NoFields]
NoCollaboratorCalls ==
    [parse_invoice_from_response |-> 0, get_signer |-> 0,
     build_payment_transaction |-> 0, get_public_key |-> 0]
NoRequestResult ==
    [type |-> "none", response |-> Response(0, NotJsonBody), message |-> "",
     cause |-> "", line |-> 0]

\* the outcome of a call that may raise
Ok(value) == [ok |-> TRUE, value |-> value]
Err(class, text) == [ok |-> FALSE, error |-> class, text |-> text]
\* nothing has been built
NoTransaction == Err("", "")

RequestUnused ==
    /\ req_pc = "idle"
    /\ req_args = NoRequest
    /\ headers = NoHeaders
    /\ responses = <<>>
    /\ invoice = NoInvoice
    /\ serialized_tx = NoTransaction
    /\ sent = <<>>
    /\ collaborators = NoCollaboratorCalls
    /\ req_result = NoRequestResult
    /\ req_calls = 0

\* no call of _poll_task_status has been made
NoPoll == [task_id |-> "", max_wait_seconds |-> PyNone, poll_interval |-> 0]
NoPollResult == [type |-> "none", message |-> "", line |-> 0]
PollUnused ==
    /\ poll_pc = "idle"
    /\ poll_args = NoPoll
    /\ now = 0
    /\ start_time = 0
    /\ poll_result = NoPollResult
    /\ queries = 0
    /\ poll_sleeps = <<>>
    /\ wallet_calls = 0

\* no call of ask_human_rpc has been made, and none is in progress
NoContext == [kind |-> "none"]
NoTaskOutcome == [kind |-> "none"]
NoAskResult ==
    [type |-> "none", value |-> PyNoResult, cause |-> "", message |-> "",
     path |-> "", line |-> 0]
AskUnused ==
    /\ ask_pc = "idle"
    /\ ask_context = NoContext
    /\ ask_runs = 0
    /\ task_pc = "idle"
    /\ task_outcome = NoTaskOutcome
    /\ ask_result = NoAskResult
    /\ executions = 0
    /\ submits = 0
    /\ polls = 0
    /\ ask_calls = 0
    /\ disabled_in_run = FALSE
    /\ last_call = "__init__"

\* self.session_id = None (agent.py:105)
NoSession == "None"

\* session management is off (enable_session_management = False)
SessionUnused ==
    /\ session_id = NoSession
    /\ shutdown_event = FALSE
    /\ heartbeat_pc = "not_started"
    /\ terminate_pc = "not_called"
    /\ heartbeats = 0
    /\ late_heartbeats = 0
    /\ deletions = 0
    /\ terminations = 0

\* the reiterator stands alone: no agent holds it
FacadeUnused ==
    /\ reiterator_exists = TRUE
    /\ reiterator_enabled = FALSE
    /\ constructions = 1
    /\ AskUnused

(***************************************************************************)
(* Initial state: a reiterator constructed with a valid configuration.     *)
(***************************************************************************)
Init ==
    /\ UnitUnused
    /\ RequestUnused
    /\ PollUnused
    /\ FacadeUnused
    /\ SessionUnused
    /\ \E ma \in 1..MaxAttemptsBound, bs \in Strategies, bd \in 1..MaxBaseDelay :
         \E md \in {bd + 1, DefaultMaxDelay} :
            /\ ValidConfig(ma, bs, bd, md)
            /\ max_attempts = ma
            /\ backoff_strategy = bs
            /\ base_delay = bd
            /\ max_delay = md
    /\ current_attempt = 0
    /\ total_retries = 0
    /\ last_retry_time = PyNone
    /\ current_task_id = PyNone
    /\ last_result = PyNoResult
    /\ active = FALSE
    /\ pc = "idle"
    /\ original_args = <<>>
    /\ original_kwargs = [text |-> ""]
    /\ given = [args |-> <<>>, kwargs |-> [text |-> ""]]
    /\ calls = <<>>
    /\ outcomes = <<>>
    /\ sleeps = <<>>
    /\ run_result = NoRun
    /\ retries_at_start = 0
    /\ runs = 0


(***************************************************************************)
(* execute_with_retry (reiterator.py:132-231).                             *)
(***************************************************************************)
\* the timestamp datetime.now() yields; the instant itself is not modelled
Timestamp == [ty |-> "str", val |-> "isoformat"]

\* CallArguments with a retry marker put into the keyword arguments of a retry
CallArgumentsMarked(args, kwargs, attempt) ==
    [args |-> args,
     kwargs |-> IF attempt > 0 THEN [kwargs EXCEPT !.text = "retry"] ELSE kwargs]

\* the arguments of one call of task_func (reiterator.py:162); attempt is
\* current_attempt at the call
CallArguments(args, kwargs, attempt) == [args |-> args, kwargs |-> kwargs]

\* LoopCondition that also looks at the agent's reiterator_enabled flag
LoopConditionWhileEnabled(attempt) == attempt < max_attempts /\ reiterator_enabled

\* the loop condition (reiterator.py:159)
LoopCondition(attempt) == attempt < max_attempts

\* RetryCheckCount counting the attempt under way as already made
RetryCheckCountOffByOne(attempt) == attempt + 1

\* the attempt count execute_with_retry hands to should_retry (reiterator.py:170)
RetryCheckCount(attempt) == attempt

\* StopsRetrying with the early return left out
StopsRetryingNever(retry) == FALSE

\* `if not self.should_retry(...)`: the result ends the run (reiterator.py:170)
StopsRetrying(retry) == ~retry

\* RetriesAfterNegative counting only the negative results that are retried
RetriesAfterNegativeRetriedOnly(retries, attempt) ==
    IF attempt >= max_attempts THEN retries ELSE retries + 1

\* total_retries after a negative result (reiterator.py:179); attempt is
\* current_attempt after its increment
RetriesAfterNegative(retries, attempt) == retries + 1

\* total_retries after an error, were errors counted as retries
RetriesAfterErrorCounted(retries) == retries + 1

\* total_retries after an error: the handler leaves it alone (reiterator.py:207-223)
RetriesAfterError(retries) == retries

\* AttemptsExhausted with > for >=
AttemptsExhaustedLate(attempt) == attempt > max_attempts

\* the attempts are used up (reiterator.py:181 and 211)
AttemptsExhausted(attempt) == attempt >= max_attempts

\* RetryDelay taken at the attempt count after its increment
RetryDelayNextIndex(attempt) == calculate_delay(attempt)

\* the delay before the retry that follows a negative result
\* (reiterator.py:192); attempt is current_attempt after its increment
RetryDelay(attempt) == calculate_delay(attempt - 1)

\* ErrorDelay following the configured strategy
ErrorDelayByStrategy(attempt) == calculate_delay(attempt - 1)

\* the delay before the retry that follows an error (reiterator.py:217)
ErrorDelay(attempt) == Min(base_delay * Pow2(attempt - 1), max_delay)

\* the class of the error is caught by `except Exception` (reiterator.py:207)
IsException(exc) == exc # "KeyboardInterrupt"

\* the class of the error is re-raised as it is (reiterator.py:204-206)
IsReiteratorError(exc) ==
    exc \in {"ReiteratorMaxAttemptsError", "ReiteratorRateLimitError"}

\* ActiveAfterRun without the finally clause: cleared on the return path only
ActiveAfterRunNoFinally(result) == result.type # "return"

\* the error raised when the last attempt fails with text cause
\* (reiterator.py:212-214), were it of the class of line 186
FinalAttemptErrorSameClass(cause) ==
    Raised("ReiteratorMaxAttemptsError", PyNoResult, cause, 212)

\* the error raised when the last attempt fails with text cause
\* (reiterator.py:212-214)
FinalAttemptError(cause) == Raised("ReiteratorRateLimitError", PyNoResult, cause, 212)

\* active once the run has ended in the given way: the finally clause
\* (reiterator.py:230-231)
ActiveAfterRun(result) == FALSE

\* The run ends: the finally clause runs and the caller gets result.
ExitRun(result) ==
    /\ active' = ActiveAfterRun(result)
    /\ pc' = "idle"
    /\ run_result' = result

\* The head of the loop with current_attempt = attempt and active = flag:
\* either task_func is called (reiterator.py:159-162) or the loop is left
\* (reiterator.py:226).
EnterLoop(attempt, args, kwargs, called, flag) ==
    IF LoopCondition(attempt)
    THEN /\ calls' = Append(called, CallArguments(args, kwargs, attempt))
         /\ pc' = "in_task"
         /\ active' = flag
         /\ run_result' = NoRun
    ELSE /\ calls' = called
         /\ ExitRun(Raised("ReiteratorMaxAttemptsError", PyNoResult, "", 226))

\* execute_with_retry is called (reiterator.py:153-162), up to the first call
\* of task_func.  One run at a time: the reiterator is used by a single flow,
\* and a new run begins only when the previous one has ended.
ExecuteWithRetry(g) ==
    /\ pc = "idle"
    /\ runs < MaxRuns
    /\ runs' = runs + 1
    /\ given' = g
    /\ current_attempt' = 0
    /\ original_args' = g.args
    /\ original_kwargs' = g.kwargs
    /\ outcomes' = <<>>
    /\ sleeps' = <<>>
    /\ retries_at_start' = total_retries
    /\ EnterLoop(0, g.args, g.kwargs, <<>>, TRUE)
    /\ UNCHANGED <<outside_reiterator, cfg_vars,
                   total_retries, last_retry_time, current_task_id,
                   last_result>>

\* HandleError that leaves the attempt count as it is
HandleErrorUncounted(cause) ==
    /\ UNCHANGED current_attempt
    /\ IF AttemptsExhausted(current_attempt + 1)
       THEN /\ ExitRun(FinalAttemptError(cause))
            /\ UNCHANGED sleeps
       ELSE /\ sleeps' = Append(sleeps, ErrorDelay(current_attempt + 1))
            /\ pc' = "sleeping"
            /\ UNCHANGED <<active, run_result>>
    /\ total_retries' = RetriesAfterError(total_retries)
    /\ UNCHANGED last_retry_time

\* The handler of `except Exception` (reiterator.py:207-223) for an error of
\* text cause.
HandleError(cause) ==
    /\ current_attempt' = current_attempt + 1
    /\ IF AttemptsExhausted(current_attempt + 1)
       THEN /\ ExitRun(FinalAttemptError(cause))
            /\ UNCHANGED sleeps
       ELSE /\ sleeps' = Append(sleeps, ErrorDelay(current_attempt + 1))
            /\ pc' = "sleeping"
            /\ UNCHANGED <<active, run_result>>
    /\ total_retries' = RetriesAfterError(total_retries)
    /\ UNCHANGED last_retry_time

\* task_func returns result (reiterator.py:162-202).
TaskReturns(result) ==
    /\ pc = "in_task"
    /\ outcomes' = Append(outcomes, [kind |-> "return", value |-> result, exc |-> ""])
    /\ last_result' = result
    /\ current_task_id' =
         IF IsDict(result) THEN Get(result, "task_id", PyNone) ELSE current_task_id
    /\ LET retry == should_retry(result, RetryCheckCount(current_attempt))
       IN  IF retry.raised
           THEN HandleError("AttributeError")
           ELSE IF StopsRetrying(retry.value)
           THEN /\ ExitRun(Returned(result))
                /\ UNCHANGED <<current_attempt, total_retries, last_retry_time, sleeps>>
           ELSE /\ current_attempt' = current_attempt + 1
                /\ total_retries' = RetriesAfterNegative(total_retries, current_attempt + 1)
                /\ IF AttemptsExhausted(current_attempt + 1)
                   THEN /\ ExitRun(Raised("ReiteratorMaxAttemptsError", result, "", 186))
                        /\ UNCHANGED <<last_retry_time, sleeps>>
                   ELSE /\ last_retry_time' = Timestamp
                        /\ sleeps' = Append(sleeps, RetryDelay(current_attempt + 1))
                        /\ pc' = "sleeping"
                        /\ UNCHANGED <<active, run_result>>
    /\ UNCHANGED <<outside_reiterator, cfg_vars,
                   original_args, original_kwargs, given, calls,
                   retries_at_start, runs>>

\* task_func raises an error of class exc (reiterator.py:204-223).
TaskRaises(exc) ==
    /\ pc = "in_task"
    /\ outcomes' = Append(outcomes, [kind |-> "raise", value |-> PyNoResult, exc |-> exc])
    /\ IF IsReiteratorError(exc)
       THEN /\ ExitRun(Raised(exc, PyNoResult, "", 206))
            /\ UNCHANGED <<current_attempt, total_retries, last_retry_time, sleeps>>
       ELSE IF IsException(exc)
       THEN HandleError(exc)
       ELSE /\ ExitRun(Raised(exc, PyNoResult, "", 162))
            /\ UNCHANGED <<current_attempt, total_retries, last_retry_time, sleeps>>
    /\ UNCHANGED <<outside_reiterator, cfg_vars,
                   current_task_id, last_result, original_args,
                   original_kwargs, given, calls, retries_at_start, runs>>

\* time.sleep returns and the loop goes round (reiterator.py:202/223, 159-162).
SleepReturns ==
    /\ pc = "sleeping"
    /\ EnterLoop(current_attempt, original_args, original_kwargs, calls, active)
    /\ UNCHANGED <<outside_reiterator, cfg_vars,
                   current_attempt, total_retries, last_retry_time,
                   current_task_id, last_result, original_args, original_kwargs,
                   given, outcomes, sleeps, retries_at_start, runs>>

\* time.sleep is interrupted (KeyboardInterrupt, which no handler of the loop
\* catches); only the finally clause runs.
SleepInterrupted ==
    /\ pc = "sleeping"
    /\ ExitRun(Raised("KeyboardInterrupt", PyNoResult, "", 202))
    /\ UNCHANGED <<outside_reiterator, cfg_vars,
                   current_attempt, total_retries, last_retry_time,
                   current_task_id, last_result, original_args, original_kwargs,
                   given, calls, outcomes, sleeps, retries_at_start, runs>>

\* reset that clears the session's retry count as well
ResetClearingSession ==
    /\ pc = "idle"
    /\ current_attempt' = 0
    /\ current_task_id' = PyNone
    /\ last_result' = PyNoResult
    /\ active' = FALSE
    /\ last_retry_time' = PyNone
    /\ total_retries' = 0
    /\ run_result' = [type |-> "reset", value |-> PyNoResult, cause |-> "", line |-> 276]
    /\ calls' = <<>>
    /\ outcomes' = <<>>
    /\ sleeps' = <<>>
    /\ retries_at_start' = 0
    /\ UNCHANGED <<outside_reiterator, cfg_vars, pc, original_args, original_kwargs,
                   given, runs>>

\* ReiteratorManager.reset (reiterator.py:263-276), called between runs.
Reset ==
    /\ pc = "idle"
    /\ current_attempt' = 0
    /\ current_task_id' = PyNone
    /\ last_result' = PyNoResult
    /\ active' = FALSE
    /\ last_retry_time' = PyNone
    /\ run_result' = [type |-> "reset", value |-> PyNoResult, cause |-> "", line |-> 276]
    /\ calls' = <<>>
    /\ outcomes' = <<>>
    /\ sleeps' = <<>>
    /\ retries_at_start' = total_retries
    /\ UNCHANGED <<outside_reiterator, cfg_vars,
                   total_retries, pc, original_args, original_kwargs,
                   given, runs>>

\* ReiteratorManager.get_status (reiterator.py:233-261): the dict it returns in
\* the current state.  The instant of next_retry_time is not modelled.
get_status ==
    [active |-> active,
     current_task_id |-> current_task_id,
     attempt_count |-> current_attempt,
     max_attempts |-> max_attempts,
     next_retry_time |->
         IF active /\ last_retry_time # PyNone THEN Timestamp ELSE PyNone,
     total_retries_session |-> total_retries,
     last_result |->
         IF IsDict(last_result) THEN Get(last_result, "sentiment", PyNone)
         ELSE PyNone,
     backoff_strategy |-> backoff_strategy,
     base_delay |-> base_delay,
     max_delay |-> max_delay]

Next ==
    \/ \E g \in GivenArguments : ExecuteWithRetry(g)
    \/ \E result \in Verdicts : TaskReturns(result)
    \/ \E exc \in ExceptionKinds : TaskRaises(exc)
    \/ SleepReturns
    \/ SleepInterrupted
    \/ Reset

Spec == Init /\ [][Next]_vars

(***************************************************************************)
(* Part 2: single calls on ReiteratorManager: the constructor,             *)
(* calculate_delay and should_retry.  The methods are called on an         *)
(* instance with a valid configuration; the constructor is called with     *)
(* arguments of any kind and yields a further instance or raises.  The     *)
(* calls do not depend on one another, so a behaviour makes one call.      *)
(***************************************************************************)
\* largest attempt count given to calculate_delay
MaxDelayIndex == 4
\* largest margin of max_delay over base_delay, the default apart
MaxDelayMargin == 2

UnitInit ==
    /\ \E ma \in 1..MaxAttemptsBound, bs \in Strategies, bd \in 1..MaxBaseDelay :
         \E md \in (bd..(bd + MaxDelayMargin)) \cup {DefaultMaxDelay} :
            /\ ValidConfig(ma, bs, bd, md)
            /\ max_attempts = ma
            /\ backoff_strategy = bs
            /\ base_delay = bd
            /\ max_delay = md
    /\ current_attempt = 0
    /\ total_retries = 0
    /\ last_retry_time = PyNone
    /\ current_task_id = PyNone
    /\ last_result = PyNoResult
    /\ active = FALSE
    /\ pc = "idle"
    /\ original_args = <<>>
    /\ original_kwargs = [text |-> ""]
    /\ given = [args |-> <<>>, kwargs |-> [text |-> ""]]
    /\ calls = <<>>
    /\ outcomes = <<>>
    /\ sleeps = <<>>
    /\ run_result = NoRun
    /\ retries_at_start = 0
    /\ runs = 0
    /\ UnitUnused
    /\ RequestUnused
    /\ PollUnused
    /\ FacadeUnused
    /\ SessionUnused

\* calculate_delay is called with some attempt count
CalculateDelay ==
    /\ applied = NoCall
    /\ \E attempt_count \in 0..MaxDelayIndex :
         applied' = [fn |-> "calculate_delay", attempt_count |-> attempt_count,
                     out |-> calculate_delay(attempt_count)]
    /\ UNCHANGED outside_unit

\* the values a result dict may hold under the keys should_retry reads
SentimentValues ==
    {Absent, PyNone, PyStr("negative"), PyStr("NEGATIVE"), PyStr("refuse"),
     PyStr("no"), PyStr("positive")}
DecisionValues ==
    {Absent, PyInt("1"), PyStr("reject"), PyStr("NO"), PyStr("refuse"),
     PyStr("approve")}
ApprovedValues == {Absent, PyNone, PyBool(TRUE), PyBool(FALSE), PyInt("0")}
ConsensusValues ==
    {Absent, PyNone, PyStr("negative"), PyStr("Negative"), PyStr("positive")}

\* the results should_retry is called with
ResultShapes ==
    { PyDict([NoItems EXCEPT !["sentiment"] = s, !["decision"] = d,
                             !["approved"] = a, !["consensus"] = c]) :
        s \in SentimentValues, d \in DecisionValues,
        a \in ApprovedValues, c \in ConsensusValues }
    \cup {PyNonDict, PyNoResult}

\* should_retry is called with some result and attempt count
ShouldRetry ==
    /\ applied = NoCall
    /\ \E result \in ResultShapes, attempt_count \in 0..MaxAttemptsBound :
         applied' = [fn |-> "should_retry", result |-> result,
                     attempt_count |-> attempt_count,
                     out |-> should_retry(result, attempt_count)]
    /\ UNCHANGED outside_unit

\* isinstance(v, int) and isinstance(v, (int, float))
IsInt(v) == v.ty = "int"
IsNumber(v) == v.ty \in {"int", "float", "nan"}

\* a < b and a <= b on Python numbers: every comparison with NaN is false
Less(a, b) == a.ty # "nan" /\ b.ty # "nan" /\ a.n < b.n
LessEq(a, b) == a.ty # "nan" /\ b.ty # "nan" /\ a.n <= b.n

\* float(v) of a number
Float(v) == IF v.ty = "nan" THEN NaN ELSE PyNum("float", v.n)

NoInstance == [exists |-> FALSE]
ConfigurationError(message) == [raised |-> message, instance |-> NoInstance]

\* ReiteratorManager(max_attempts, backoff_strategy, base_delay, max_delay):
\* the error raised, or the attributes of the new instance
ReiteratorManager(ma, bs, bd, md) ==
    IF ~IsInt(ma) \/ Less(ma, PyNum("int", 1))
    THEN ConfigurationError("max_attempts must be an integer >= 1")
    ELSE IF bs \notin {PyStr(name) : name \in Strategies}
    THEN ConfigurationError("backoff_strategy must be one of: exponential, linear, fixed")
    ELSE IF ~IsNumber(bd) \/ LessEq(bd, PyNum("int", 0))
    THEN ConfigurationError("base_delay must be a positive number")
    ELSE IF ~IsNumber(md) \/ Less(md, bd)
    THEN ConfigurationError("max_delay must be >= base_delay")
    ELSE [raised |-> "",
          instance |-> [exists |-> TRUE,
                        max_attempts |-> ma,
                        backoff_strategy |-> bs,
                        base_delay |-> Float(bd),
                        max_delay |-> Float(md),
                        current_attempt |-> 0,
                        total_retries |-> 0,
                        active |-> FALSE]]

\* the arguments the constructor is called with
MaxAttemptsArguments ==
    {PyNum("int", 0), PyNum("int", 1), PyNum("int", MaxAttemptsBound),
     PyNum("float", 2), PyStr("3"), PyNone}
StrategyArguments ==
    {PyStr(name) : name \in Strategies} \cup {PyStr("Fixed"), PyNone}
BaseDelayArguments ==
    {PyNum("int", 0), PyNum("int", 1), PyNum("float", MaxBaseDelay),
     PyNum("float", -1), NaN, PyStr("1"), PyNone}
MaxDelayArguments ==
    {PyNum("int", 0), PyNum("int", 1), PyNum("float", MaxBaseDelay),
     PyNum("float", DefaultMaxDelay), NaN, PyNone}

\* the constructor is called with some arguments
Construct ==
    /\ applied = NoCall
    /\ \E ma \in MaxAttemptsArguments, bs \in StrategyArguments,
          bd \in BaseDelayArguments, md \in MaxDelayArguments :
         applied' = [fn |-> "__init__",
                     args |-> [max_attempts |-> ma, backoff_strategy |-> bs,
                               base_delay |-> bd, max_delay |-> md],
                     out |-> ReiteratorManager(ma, bs, bd, md)]
    /\ UNCHANGED outside_unit

UnitNext ==
    \/ CalculateDelay
    \/ ShouldRetry
    \/ Construct

UnitSpec == UnitInit /\ [][UnitNext]_vars

(***************************************************************************)
(* Part 3: AutoAgent.request (human_rpc_sdk/agent.py), the 402 payment     *)
(* interceptor, with the invoice parser (invoices.py) and the transaction  *)
(* builder (solana_utils.py) it calls.  One call of request is split at    *)
(* the points where it blocks: the two HTTP requests and the RPC call of   *)
(* the builder.                                                            *)
(***************************************************************************)
\* number of calls of request in one behaviour
MaxRequestCalls == 2

\* lamports per SOL (invoices.py:111)
LamportsPerSol == 1000000000

\* str.upper() and str.strip() on the strings of the model
Upper(s) ==
    CASE s = "sol" -> "SOL"
      [] s = "usdc" -> "USDC"
      [] s = "btc" -> "BTC"
      [] OTHER -> s
Strip(s) ==
    CASE s = " MerchantWallet " -> "MerchantWallet"
      [] s = "  " -> ""
      [] OTHER -> s

\* bool(v) of a value held by an invoice
Truthy(v) ==
    /\ v.ty \notin {"absent", "NoneType"}
    /\ v.ty = "str" => v.val # ""

\* key in invoice_data
Has(data, key) == data[key].ty # "absent"

\* Invoice.get_currency
get_currency(data) ==
    IF Has(data, "currency")
    THEN IF data["currency"].ty = "str"
         THEN Ok(Upper(data["currency"].val))
         ELSE Err("AttributeError", "object has no attribute 'upper'")
    ELSE IF Has(data, "tokenAccount") \/ Has(data, "mint") THEN Ok("USDC")
    ELSE Ok("SOL")

\* Invoice.get_recipient
get_recipient(data) ==
    LET Usable(key) == data[key].ty = "str" /\ Strip(data[key].val) # ""
    IN  IF Usable("recipient") THEN Ok(Strip(data["recipient"].val))
        ELSE IF Usable("recipientWallet") THEN Ok(Strip(data["recipientWallet"].val))
        ELSE IF Usable("tokenAccount") THEN Ok(Strip(data["tokenAccount"].val))
        ELSE Err("InvoiceValidationError", "Could not find valid recipient address")

\* Invoice.get_mint
get_mint(data) == IF Has(data, "mint") THEN data["mint"] ELSE PyNone

\* Invoice.get_reference
get_reference(data) == IF Has(data, "reference") THEN data["reference"] ELSE PyNone

\* Invoice.get_amount_lamports
get_amount_lamports(data) ==
    LET ToInt(v) ==
            IF v = NaN THEN Err("ValueError", "cannot convert float NaN to integer")
            ELSE Ok(v.n)
    IN  IF Has(data, "amount") /\ IsNumber(data["amount"])
        THEN ToInt(data["amount"])
        ELSE IF Has(data, "amountSOL") /\ IsNumber(data["amountSOL"])
        THEN IF data["amountSOL"] = NaN THEN ToInt(NaN)
             ELSE ToInt(PyNum("float", data["amountSOL"].n * LamportsPerSol))
        ELSE Err("InvoiceValidationError", "Could not determine payment amount")

\* Invoice.get_network
get_network(data) ==
    LET network == IF Has(data, "network") THEN data["network"] ELSE PyStr("devnet")
        cluster == IF Has(data, "cluster") THEN data["cluster"] ELSE PyStr("devnet")
        Mainnet(v) == Lower(v.val) \in {"mainnet", "mainnet-beta"}
    IN  IF network.ty # "str" \/ (~Mainnet(network) /\ cluster.ty # "str")
        THEN Err("AttributeError", "object has no attribute 'lower'")
        ELSE IF Mainnet(network) \/ Mainnet(cluster) THEN Ok("mainnet-beta")
        ELSE Ok("devnet")

\* validate that asks no mint of a token invoice
validate_without_mint(data) ==
    LET currency == get_currency(data)
        recipient == get_recipient(data)
        Invalid(text) == Err("InvoiceValidationError", text)
    IN  IF ~Has(data, "amount") /\ ~Has(data, "amountSOL")
        THEN Invalid("Invoice must contain 'amount' or 'amountSOL' field")
        ELSE IF ~currency.ok THEN currency
        ELSE IF currency.value \in {"SOL", "USDC", "SPL"}
        THEN IF recipient.ok THEN Ok(data) ELSE recipient
        ELSE Invalid("Unsupported currency")

\* Invoice.validate
validate(data) ==
    LET currency == get_currency(data)
        recipient == get_recipient(data)
        Invalid(text) == Err("InvoiceValidationError", text)
    IN  IF ~Has(data, "amount") /\ ~Has(data, "amountSOL")
        THEN Invalid("Invoice must contain 'amount' or 'amountSOL' field")
        ELSE IF ~currency.ok THEN currency
        ELSE IF currency.value = "SOL"
        THEN IF recipient.ok THEN Ok(data) ELSE recipient
        ELSE IF currency.value \in {"USDC", "SPL"}
        THEN IF ~recipient.ok THEN recipient
             ELSE IF ~Truthy(get_mint(data))
             THEN Invalid("SPL token invoice must contain 'mint' field")
             ELSE Ok(data)
        ELSE Invalid("Unsupported currency")

\* a value found under a key of the decoded body: nothing, a dict with the
\* given fields, or a value of another type
NoValue == [ty |-> "absent", data |-> NoFields]
DictValue(data) == [ty |-> "dict", data |-> data]
OtherValue(ty) == [ty |-> ty, data |-> NoFields]
\* the value under "accepts": nothing, or a list
NoList == [ty |-> "absent", elements |-> <<>>]
ListValue(elements) == [ty |-> "list", elements |-> elements]

\* the decoded body of a response: what it holds under "invoice", "payment"
\* and "accepts", and the invoice fields it holds itself
RawData(under_invoice, under_payment, under_accepts, own) ==
    [invoice |-> under_invoice, payment |-> under_payment,
     accepts |-> under_accepts, own |-> own]

\* parse_invoice_data that does not know the "payment" envelope
parse_invoice_data_without_payment(raw_data) ==
    IF raw_data.invoice.ty # "absent" THEN raw_data.invoice
    ELSE IF raw_data.accepts.ty # "absent" /\ Len(raw_data.accepts.elements) > 0
    THEN raw_data.accepts.elements[1]
    ELSE DictValue(raw_data.own)

\* Invoice._parse_invoice_data: the value taken for the invoice
parse_invoice_data(raw_data) ==
    IF raw_data.invoice.ty # "absent" THEN raw_data.invoice
    ELSE IF raw_data.payment.ty # "absent" THEN raw_data.payment
    ELSE IF raw_data.accepts.ty # "absent" /\ Len(raw_data.accepts.elements) > 0
    THEN raw_data.accepts.elements[1]
    ELSE DictValue(raw_data.own)

\* Invoice(data): the Invoice constructed, or the error raised
Invoice(raw_data) ==
    LET invoice_data == parse_invoice_data(raw_data)
    IN  IF invoice_data.ty # "dict"
        THEN Err("InvoiceValidationError", "Invoice data must be a dictionary")
        ELSE LET valid == validate(invoice_data.data)
             IN  IF valid.ok THEN Ok([invoice_data |-> invoice_data.data]) ELSE valid

\* parse_invoice_from_response: the Invoice, or the error raised; the
\* bodies of the model's responses hold the invoice fields themselves
parse_invoice_from_response(text) ==
    IF ~text.json THEN Err("InvoiceValidationError", "Invalid JSON in response")
    ELSE Invoice(RawData(NoValue, NoValue, NoList, text.data))

\* the public key of the agent's wallet (wallet.py:66-68)
AgentWallet == "AgentWallet"
\* the strings that are base58 addresses (Pubkey.from_string accepts them)
ValidAddresses == {"MerchantWallet", "MerchantTokenAccount", "UsdcMint", AgentWallet}

\* get_recent_blockhash (solana_utils.py:54-95); rpc is what the RPC node does
get_recent_blockhash(network, rpc) ==
    IF rpc = "ok" THEN Ok([blockhash_of |-> network])
    ELSE Err("TransactionBuildError", "Failed to get recent blockhash")

\* build_payment_transaction (solana_utils.py:260-315) with build_sol_transfer,
\* build_spl_transfer and sign_and_serialize_transaction: the signed
\* transaction, or the error raised
build_payment_transaction(sender, recipient, amount, currency, mint, network, rpc) ==
    LET blockhash == get_recent_blockhash(network, rpc)
        BuildError(text) == Err("TransactionBuildError", text)
        Signed(mint_address) ==
            Ok([signed_by |-> sender, sender |-> sender, recipient |-> recipient,
                amount |-> amount, currency |-> currency, mint |-> mint_address,
                recent_blockhash |-> blockhash.value])
    IN  IF recipient \notin ValidAddresses THEN BuildError("Invalid Base58 string")
        ELSE IF currency = "SOL"
        THEN IF ~blockhash.ok THEN blockhash
             ELSE IF sender = recipient THEN BuildError("Cannot send SOL to self")
             ELSE Signed("")
        ELSE IF ~Truthy(mint) THEN Err("PaymentError", "Mint address required")
        ELSE IF mint.ty # "str" \/ mint.val \notin ValidAddresses
        THEN BuildError("Invalid Base58 string")
        ELSE IF ~blockhash.ok THEN blockhash
        ELSE Signed(mint.val)

\* create_payment_header that always names the default network
create_payment_header_on_devnet(serialized_transaction, network) ==
    [x402Version |-> 1, scheme |-> "solana", network |-> "devnet",
     payload |-> [serializedTransaction |-> serialized_transaction]]

\* create_payment_header (solana_utils.py:318-336)
create_payment_header(serialized_transaction, network) ==
    [x402Version |-> 1, scheme |-> "solana", network |-> network,
     payload |-> [serializedTransaction |-> serialized_transaction]]

\* base64.b64encode(json.dumps(payload).encode()).decode() (agent.py:234-236)
PaymentHeader(payload) ==
    [kind |-> "payment", encoding |-> "base64 of JSON", envelope |-> payload]

\* one HTTP request as the session sends it
HttpRequest(method, url, hdrs, body) ==
    [method |-> method, url |-> url, headers |-> hdrs, body |-> body]

\* request returned response r, from the given line of agent.py
RequestReturned(r, line) ==
    [type |-> "return", response |-> r, message |-> "", cause |-> "", line |-> line]
RequestRaised(type, message, cause, line) ==
    [type |-> type, response |-> Response(0, NotJsonBody), message |-> message,
     cause |-> cause, line |-> line]

\* IsPaymentRequired that takes 403 Forbidden for a paywall as well
IsPaymentRequiredOrForbidden(status) == status \in {402, 403}

\* `response.status_code == 402` (agent.py:203)
IsPaymentRequired(status) == status = 402

\* Paywalled with the resubmission going through request itself
PaywalledOnRetryToo(position, r) == IsPaymentRequired(r.status_code)

\* the response is answered with a payment: only the initial one is, the
\* resubmission goes through session.request, not request (agent.py:242)
Paywalled(position, r) ==
    position = "initial" /\ IsPaymentRequired(r.status_code)

\* PaymentRejected that lets a second 402 through
PaymentRejectedNever(status) == FALSE

\* `retry_response.status_code == 402` (agent.py:245)
PaymentRejected(status) == status = 402

\* WrapError that keeps no text of the error it wraps
WrapErrorDroppingCause(e) ==
    RequestRaised("PaymentError", "Payment processing failed", "", 259)

\* a failure that is no PaymentError, wrapped in PaymentError with its text
\* (agent.py:258-262)
WrapError(e) ==
    RequestRaised("PaymentError", "Payment processing failed", e.text, 259)

\* the handler of the try block (agent.py:254-262): request ends raising,
\* having made the collaborator calls counted in made
Fail(e, made) ==
    /\ req_pc' = "idle"
    /\ IF e.error = "PaymentError"
       THEN /\ req_result' = RequestRaised("PaymentError", e.text, e.text, 256)
            /\ collaborators' = made
       ELSE /\ req_result' = WrapError(e)
            /\ collaborators' =
                 [made EXCEPT !.get_public_key = made.get_public_key + 1]

\* request is entered and sends the initial request (agent.py:191-200)
CallRequest(method, url, given_headers, body) ==
    /\ req_pc = "idle"
    /\ req_calls' = req_calls + 1
    /\ req_args' = [method |-> method, url |-> url,
                    headers_given |-> given_headers.given,
                    headers |-> given_headers.items, body |-> body]
    /\ headers' = IF given_headers.given THEN given_headers.items ELSE NoHeaders
    /\ sent' = <<HttpRequest(method, url, headers', body)>>
    /\ responses' = <<>>
    /\ invoice' = NoInvoice
    /\ serialized_tx' = NoTransaction
    /\ collaborators' = NoCollaboratorCalls
    /\ req_result' = NoRequestResult
    /\ req_pc' = "initial"

\* request is called by a caller of the agent
Request(method, url, given_headers, body) ==
    /\ req_calls < MaxRequestCalls
    /\ CallRequest(method, url, given_headers, body)
    /\ UNCHANGED outside_request

\* the try block up to the call of build_payment_transaction (agent.py:206-230)
ProcessPaywall(r) ==
    LET parsed == parse_invoice_from_response(r.text)
        data == r.text.data
        amount == get_amount_lamports(data)
        network == get_network(data)
        parser_called ==
            [collaborators EXCEPT !.parse_invoice_from_response = @ + 1]
        signer_called == [parser_called EXCEPT !.get_signer = @ + 1]
    IN  IF ~parsed.ok THEN Fail(parsed, parser_called) /\ UNCHANGED invoice
        ELSE IF ~amount.ok
        THEN Fail(amount, parser_called) /\ invoice' = parsed.value
        ELSE IF ~network.ok
        THEN Fail(network, signer_called) /\ invoice' = parsed.value
        ELSE /\ invoice' = parsed.value
             /\ collaborators' =
                  [signer_called EXCEPT !.build_payment_transaction = @ + 1]
             /\ req_pc' = "building"
             /\ UNCHANGED req_result

\* the initial request is answered (agent.py:200-203, 264)
InitialResponds(r) ==
    /\ req_pc = "initial"
    /\ responses' = <<r>>
    /\ IF Paywalled("initial", r)
       THEN ProcessPaywall(r)
       ELSE /\ req_result' = RequestReturned(r, 264)
            /\ req_pc' = "idle"
            /\ UNCHANGED <<invoice, collaborators>>
    /\ UNCHANGED <<outside_request, req_args, headers, serialized_tx,
                   sent, req_calls>>

\* the initial request fails in transport: the error leaves request as it is
InitialFails ==
    /\ req_pc = "initial"
    /\ req_result' = RequestRaised("ConnectionError", "", "ConnectionError", 200)
    /\ req_pc' = "idle"
    /\ UNCHANGED <<outside_request, req_args, headers, responses,
                   invoice, serialized_tx, sent, collaborators, req_calls>>

\* build_payment_transaction ends; on success the header is set and the
\* request is sent again (agent.py:223-242)
BuildCompletes(rpc) ==
    /\ req_pc = "building"
    /\ LET data == invoice.invoice_data
           network == get_network(data).value
           built == build_payment_transaction(
                        AgentWallet, get_recipient(data).value,
                        get_amount_lamports(data).value, get_currency(data).value,
                        get_mint(data), network, rpc)
       IN  /\ serialized_tx' = built
           /\ IF ~built.ok
              THEN Fail(built, collaborators) /\ UNCHANGED <<headers, sent>>
              ELSE /\ headers' =
                        [headers EXCEPT !["X-PAYMENT"] =
                            PaymentHeader(create_payment_header(built.value, network))]
                   /\ sent' = Append(sent, HttpRequest(req_args.method, req_args.url,
                                                       headers', req_args.body))
                   /\ req_pc' = "resubmitted"
                   /\ UNCHANGED <<req_result, collaborators>>
    /\ UNCHANGED <<outside_request, req_args, responses, invoice, req_calls>>

\* the resubmission is answered (agent.py:242-252)
RetryResponds(r) ==
    /\ req_pc = "resubmitted"
    /\ responses' = Append(responses, r)
    /\ IF Paywalled("resubmitted", r)
       THEN ProcessPaywall(r)
       ELSE /\ req_pc' = "idle"
            /\ UNCHANGED invoice
            /\ IF PaymentRejected(r.status_code)
               THEN /\ req_result' = RequestRaised("PaymentError",
                                          "Payment verification failed", "", 246)
                    /\ collaborators' =
                         [collaborators EXCEPT !.get_public_key = @ + 1]
               ELSE /\ req_result' = RequestReturned(r, 252)
                    /\ UNCHANGED collaborators
    /\ UNCHANGED <<outside_request, req_args, headers, serialized_tx,
                   sent, req_calls>>

\* the resubmission fails in transport, inside the try block (agent.py:242, 254)
RetryFails ==
    /\ req_pc = "resubmitted"
    /\ Fail(Err("ConnectionError", "ConnectionError"), collaborators)
    /\ UNCHANGED <<outside_request, req_args, headers, responses,
                   invoice, serialized_tx, sent, req_calls>>

\* bodies of 402 responses
SolInvoice ==
    JsonBody([NoFields EXCEPT !["amount"] = PyNum("int", 5000),
                              !["recipient"] = PyStr(" MerchantWallet ")])
SolAmountInvoice ==
    JsonBody([NoFields EXCEPT !["amountSOL"] = PyNum("float", 1),
                              !["recipientWallet"] = PyStr("MerchantWallet")])
UsdcInvoice ==
    JsonBody([NoFields EXCEPT !["amount"] = PyNum("int", 1000),
                              !["currency"] = PyStr("usdc"),
                              !["tokenAccount"] = PyStr("MerchantTokenAccount"),
                              !["mint"] = PyStr("UsdcMint"),
                              !["network"] = PyStr("mainnet-beta")])
\* no amount field at all
NoAmountInvoice ==
    JsonBody([NoFields EXCEPT !["recipient"] = PyStr("MerchantWallet")])
\* an amount that is text
TextAmountInvoice ==
    JsonBody([NoFields EXCEPT !["amount"] = PyStr("5000"),
                              !["recipient"] = PyStr("MerchantWallet")])
\* a recipient that is no address
BadRecipientInvoice ==
    JsonBody([NoFields EXCEPT !["amount"] = PyNum("int", 5000),
                              !["recipient"] = PyStr("not-base58")])
\* the agent's own wallet as recipient
SelfInvoice ==
    JsonBody([NoFields EXCEPT !["amount"] = PyNum("int", 5000),
                              !["recipient"] = PyStr(AgentWallet)])
\* a currency that is null, and one that is not supported
NullCurrencyInvoice ==
    JsonBody([NoFields EXCEPT !["amount"] = PyNum("int", 5000),
                              !["currency"] = PyNone,
                              !["recipient"] = PyStr("MerchantWallet")])
BtcInvoice ==
    JsonBody([NoFields EXCEPT !["amount"] = PyNum("int", 5000),
                              !["currency"] = PyStr("btc"),
                              !["recipient"] = PyStr("MerchantWallet")])
\* a network that is a number
NumberNetworkInvoice ==
    JsonBody([NoFields EXCEPT !["amount"] = PyNum("int", 5000),
                              !["recipient"] = PyStr("MerchantWallet"),
                              !["network"] = PyNum("int", 1)])

InvoiceTexts ==
    {SolInvoice, SolAmountInvoice, UsdcInvoice, NoAmountInvoice, TextAmountInvoice,
     BadRecipientInvoice, SelfInvoice, NullCurrencyInvoice, BtcInvoice,
     NumberNetworkInvoice, NotJsonBody}

\* what the server may answer to a request
ServerResponses ==
    {Response(402, text) : text \in InvoiceTexts}
    \cup {Response(status, text) :
             status \in {200, 403, 404, 500}, text \in {NotJsonBody, SolInvoice}}

\* what a caller passes to request
GivenHeaders ==
    { [given |-> FALSE, items |-> NoHeaders],
      [given |-> TRUE, items |-> NoHeaders],
      [given |-> TRUE,
       items |-> [NoHeaders EXCEPT !["Accept"] = HeaderText("application/json")]] }

\* an agent as its constructor leaves it, but for its session; its
\* reiterator has the defaults
AgentWithDefaults ==
    /\ max_attempts = 3
    /\ backoff_strategy = "exponential"
    /\ base_delay = 1
    /\ max_delay = DefaultMaxDelay
    /\ current_attempt = 0
    /\ total_retries = 0
    /\ last_retry_time = PyNone
    /\ current_task_id = PyNone
    /\ last_result = PyNoResult
    /\ active = FALSE
    /\ pc = "idle"
    /\ original_args = <<>>
    /\ original_kwargs = [text |-> ""]
    /\ given = [args |-> <<>>, kwargs |-> [text |-> ""]]
    /\ calls = <<>>
    /\ outcomes = <<>>
    /\ sleeps = <<>>
    /\ run_result = NoRun
    /\ retries_at_start = 0
    /\ runs = 0
    /\ UnitUnused
    /\ RequestUnused
    /\ PollUnused
    /\ FacadeUnused

\* an agent that has made no request
RequestInit == AgentWithDefaults /\ SessionUnused

RequestNext ==
    \/ \E method \in {"GET", "POST"}, given_headers \in GivenHeaders :
         Request(method, "https://service/api", given_headers, "task")
    \/ \E r \in ServerResponses : InitialResponds(r)
    \/ InitialFails
    \/ \E rpc \in {"ok", "unreachable"} : BuildCompletes(rpc)
    \/ \E r \in ServerResponses : RetryResponds(r)
    \/ RetryFails

RequestSpec == RequestInit /\ [][RequestNext]_vars

(***************************************************************************)
(* The submissions of one call of ask_human_rpc: every attempt calls       *)
(* execute_task, which posts the task through request (agent.py:333) with  *)
(* the payload and the headers dict made once, before the first attempt    *)
(* (agent.py:317-328).  With retry enabled a further attempt may follow    *)
(* however the submission of the attempt before it ended.  The status      *)
(* queries between two submissions pass no headers and leave the dict      *)
(* alone; they are left out here.                                          *)
(***************************************************************************)
\* self.human_rpc_url, and the payload of agent.py:317-326
HumanRpcUrl == "https://human-rpc/api/v1/tasks"
TaskPayload == "payload"
\* headers = {"Content-Type": "application/json"} (agent.py:328)
TaskHeaders == [NoHeaders EXCEPT !["Content-Type"] = HeaderText("application/json")]

\* execute_task posts the task: the first attempt passes the dict as it was
\* made, a later one the same dict as request left it
ExecuteTaskPosts ==
    /\ req_calls < MaxRequestCalls
    /\ LET closure == IF req_calls = 0 THEN TaskHeaders ELSE headers
       IN  CallRequest("POST", HumanRpcUrl, [given |-> TRUE, items |-> closure],
                       TaskPayload)
    /\ UNCHANGED outside_request

SubmitInit == RequestInit

SubmitNext ==
    \/ ExecuteTaskPosts
    \/ \E r \in ServerResponses : InitialResponds(r)
    \/ InitialFails
    \/ \E rpc \in {"ok", "unreachable"} : BuildCompletes(rpc)
    \/ \E r \in ServerResponses : RetryResponds(r)
    \/ RetryFails

SubmitSpec == SubmitInit /\ [][SubmitNext]_vars

(***************************************************************************)
(* Part 4: AutoAgent._poll_task_status (human_rpc_sdk/agent.py), the task  *)
(* poller.  Every status query goes through self.get, that is through      *)
(* request of Part 3.  One call is split where it blocks: the status       *)
(* query and time.sleep.  Time is counted in whole seconds.                *)
(***************************************************************************)
\* largest max_wait_seconds a poll is called with
MaxWait == 3
\* largest poll_interval a poll is called with
MaxPollInterval == 2
\* longest time one status query takes
MaxQueryTime == 1
\* the clock is followed up to this instant
MaxClock == MaxWait + MaxQueryTime + MaxPollInterval + 1

\* the keys of a task's result that the poller reads
TaskResultKeys == {"sentiment", "decision", "confidence", "approved", "consensus"}
NoResultItems == [k \in TaskResultKeys |-> Absent]
\* the "result" of a status body: a dict, null, or not there at all
TaskResult(items) == [ty |-> "dict", items |-> items]
EmptyResult == TaskResult(NoResultItems)
NullResult == [ty |-> "NoneType", items |-> NoResultItems]
MissingResult == [ty |-> "absent", items |-> NoResultItems]

\* the JSON body {"status": ..., "result": ...} of a status response
TaskBody(status, result) ==
    [json |-> TRUE, data |-> NoFields, task |-> [status |-> status, result |-> result]]

\* task_data.get("status", "unknown")
TaskStatus(body) ==
    IF body.task.status = Absent THEN PyStr("unknown") ELSE body.task.status

\* `not result` for result = task_data.get("result", {}) (agent.py:588-589)
ResultFalsy(result) ==
    \/ result.ty \in {"absent", "NoneType"}
    \/ \A k \in TaskResultKeys : result.items[k] = Absent

\* result.get(key, default)
ResultGet(result, key, default) ==
    IF result.items[key] = Absent THEN default ELSE result.items[key]

\* PollVerdict that carries the word "unknown" for the task id
PollVerdictWithoutTask(task_id, result) ==
    [ty |-> "dict",
     items |-> [NoItems EXCEPT
                  !["task_id"] = PyStr("unknown"),
                  !["sentiment"] = ResultGet(result, "sentiment", PyStr("UNKNOWN")),
                  !["decision"] = ResultGet(result, "decision", PyStr("unknown"))],
     status |-> "Task Completed",
     confidence |-> ResultGet(result, "confidence", PyNum("float", 0)),
     result |-> result]

\* the dict _poll_task_status returns (agent.py:594-601); its sentiment,
\* decision and task_id are the items the reiterator reads
PollVerdict(task_id, result) ==
    [ty |-> "dict",
     items |-> [NoItems EXCEPT
                  !["task_id"] = PyStr(task_id),
                  !["sentiment"] = ResultGet(result, "sentiment", PyStr("UNKNOWN")),
                  !["decision"] = ResultGet(result, "decision", PyStr("unknown"))],
     status |-> "Task Completed",
     confidence |-> ResultGet(result, "confidence", PyNum("float", 0)),
     result |-> result]

PollReturned(verdict) ==
    [type |-> "return", verdict |-> verdict, message |-> "", line |-> 594]
PollRaised(type, message, line) == [type |-> type, message |-> message, line |-> line]

\* DeadlineReached with > for >=
DeadlinePassedStrictly(elapsed, max_wait_seconds) ==
    max_wait_seconds # PyNone /\ elapsed > max_wait_seconds.n

\* `max_wait_seconds is not None and elapsed >= max_wait_seconds` (agent.py:562)
DeadlineReached(elapsed, max_wait_seconds) ==
    max_wait_seconds # PyNone /\ elapsed >= max_wait_seconds.n

\* IsServerError that knows 500 Internal Server Error only
IsInternalServerError(status) == status = 500

\* `500 <= response.status_code < 600` (agent.py:574)
IsServerError(status) == 500 <= status /\ status < 600

\* the URL of the status query (agent.py:551)
TaskUrl(task_id) == <<"https://service/api", "?taskId=", task_id>>

\* The head of the loop at time t (agent.py:558-568): the deadline is
\* checked, then the status is queried through self.get.
PollLoop(args, started, t) ==
    IF DeadlineReached(t - started, args.max_wait_seconds)
    THEN /\ poll_result' = PollRaised("HumanVerificationError", "Polling timeout", 563)
         /\ poll_pc' = "done"
         /\ UNCHANGED <<request_vars, queries>>
    ELSE /\ CallRequest("GET", TaskUrl(args.task_id),
                        [given |-> FALSE, items |-> NoHeaders], "")
         /\ queries' = queries + 1
         /\ poll_pc' = "waiting"
         /\ UNCHANGED poll_result

\* _poll_task_status is called (agent.py:551-568), up to the first query
PollTaskStatus(task_id, max_wait_seconds, poll_interval) ==
    /\ poll_pc = "idle"
    /\ req_pc = "idle"
    /\ poll_args' = [task_id |-> task_id, max_wait_seconds |-> max_wait_seconds,
                     poll_interval |-> poll_interval]
    /\ start_time' = now
    /\ poll_sleeps' = <<>>
    /\ PollLoop(poll_args', now, now)
    /\ UNCHANGED <<now, wallet_calls, reiterator_vars, unit_vars, facade_vars, session_vars>>

\* the poll ends, raising or returning
PollEnds(result) ==
    /\ poll_result' = result
    /\ poll_pc' = "done"
    /\ UNCHANGED poll_sleeps

\* time.sleep(poll_interval) is called (agent.py:576, 608, 612)
PollSleeps ==
    /\ poll_sleeps' = Append(poll_sleeps, poll_args.poll_interval)
    /\ poll_pc' = "sleeping"
    /\ UNCHANGED poll_result

\* self.get has returned response r (agent.py:570-608).  When the body of a
\* 200 response is no JSON, response.json() raises an error that is a
\* requests.RequestException in some versions of requests (handled at
\* agent.py:610) and a json.JSONDecodeError only in others (agent.py:613).
PollResponse(r, json_error_is_request_exception) ==
    IF r.status_code = 404
    THEN PollEnds(PollRaised("HumanVerificationError", "Task not found", 571))
    ELSE IF IsServerError(r.status_code) THEN PollSleeps
    ELSE IF r.status_code # 200
    THEN PollEnds(PollRaised("HumanVerificationError", "Failed to poll task", 580))
    ELSE IF ~r.text.json
    THEN IF json_error_is_request_exception THEN PollSleeps
         ELSE PollEnds(PollRaised("HumanVerificationError",
                                  "Failed to parse task response", 614))
    ELSE IF TaskStatus(r.text) = PyStr("completed")
    THEN IF ResultFalsy(r.text.task.result)
         THEN PollEnds(PollRaised("HumanVerificationError",
                                  "Task completed but no result found", 590))
         ELSE PollEnds(PollReturned(PollVerdict(poll_args.task_id, r.text.task.result)))
    ELSE PollSleeps

\* self.get has ended, after a time of took seconds (agent.py:568-614): it
\* returned a response, or raised an error, which leaves the poll as it is
\* unless it is a requests.RequestException
PollQueryEnds(took, json_error_is_request_exception) ==
    /\ poll_pc = "waiting"
    /\ req_pc = "idle"
    /\ now + took <= MaxClock
    /\ now' = now + took
    /\ wallet_calls' = wallet_calls + collaborators.get_signer
    /\ IF req_result.type = "return"
       THEN PollResponse(req_result.response, json_error_is_request_exception)
       ELSE IF req_result.type = "ConnectionError" THEN PollSleeps
       ELSE PollEnds(PollRaised(req_result.type, req_result.message, 568))
    /\ UNCHANGED <<poll_args, start_time, queries, request_vars,
                   reiterator_vars, unit_vars, facade_vars, session_vars>>

\* time.sleep returns and the loop goes round (agent.py:558-568)
PollSleepReturns ==
    /\ poll_pc = "sleeping"
    /\ now + poll_args.poll_interval <= MaxClock
    /\ now' = now + poll_args.poll_interval
    /\ PollLoop(poll_args, start_time, now')
    /\ UNCHANGED <<poll_args, start_time, poll_sleeps, wallet_calls,
                   reiterator_vars, unit_vars, facade_vars, session_vars>>

\* results of a completed task
NegativeResult ==
    TaskResult([NoResultItems EXCEPT !["sentiment"] = PyStr("negative"),
                                     !["decision"] = PyStr("reject"),
                                     !["confidence"] = PyNum("float", 90)])
\* a result that holds a decision only
ApprovedResult == TaskResult([NoResultItems EXCEPT !["decision"] = PyStr("approve")])

\* a result that the humans turned down, saying so in approved and consensus
DisapprovedResult ==
    TaskResult([NoResultItems EXCEPT !["sentiment"] = PyStr("positive"),
                                     !["decision"] = PyStr("approve"),
                                     !["approved"] = PyBool(FALSE),
                                     !["consensus"] = PyStr("negative")])

TaskResults == {MissingResult, NullResult, EmptyResult, NegativeResult, ApprovedResult}

\* what the server may answer to a status query or to its resubmission
StatusResponses ==
    {Response(200, TaskBody(PyStr("completed"), result)) : result \in TaskResults}
    \cup {Response(200, TaskBody(PyStr("pending"), MissingResult)),
          Response(200, TaskBody(PyStr("failed"), NegativeResult)),
          Response(200, TaskBody(Absent, MissingResult)),
          Response(200, NotJsonBody)}
    \cup {Response(status, NotJsonBody) : status \in {201, 403, 404, 500, 503}}
    \cup {Response(402, SolInvoice), Response(402, NoAmountInvoice)}

\* an agent that has made no call
PollInit == RequestInit

PollNext ==
    \/ \E max_wait_seconds \in {PyNone} \cup {PyNum("int", n) : n \in 0..MaxWait},
          poll_interval \in 1..MaxPollInterval :
         PollTaskStatus("task_1", max_wait_seconds, poll_interval)
    \/ \E took \in 0..MaxQueryTime, json_error_is_request_exception \in BOOLEAN :
         PollQueryEnds(took, json_error_is_request_exception)
    \/ PollSleepReturns
    \/ \E r \in StatusResponses : InitialResponds(r)
    \/ InitialFails
    \/ \E rpc \in {"ok", "unreachable"} : BuildCompletes(rpc)
    \/ \E r \in StatusResponses : RetryResponds(r)
    \/ RetryFails

PollSpec == PollInit /\ [][PollNext]_vars

\* the poller's thread is scheduled, and every HTTP request and RPC call
\* ends: each carries its own timeout (agent.py:196-197, 568)
PollLiveSpec == PollSpec /\ WF_vars(PollNext)

(***************************************************************************)
(* Part 5: the client facade (human_rpc_sdk/agent.py): ask_human_rpc with  *)
(* its task function execute_task, enable_reiterator and                   *)
(* disable_reiterator.  One call of ask_human_rpc is split where it        *)
(* blocks: self.post, _poll_task_status and, with the reiterator, the      *)
(* steps of execute_with_retry of Part 1, whose task_func is execute_task. *)
(* What self.post and _poll_task_status may give is taken from Parts 3     *)
(* and 4.  enable_reiterator and disable_reiterator may be called at any   *)
(* time, also from another thread while ask_human_rpc is running.          *)
(***************************************************************************)
\* number of calls of ask_human_rpc in one behaviour
MaxAsks == 2

\* the fields of context["data"] that _validate_context reads
ContextFields == {"userQuery", "agentConclusion", "confidence", "reasoning"}

\* a context: its type, whether it is an empty dict, whether it has "data",
\* the type of data, and the fields of data.  A confidence is held in
\* hundredths: PyNum("float", 50) is 0.5.
Context(ty, empty, has_data, data_ty, data) ==
    [kind |-> "context", ty |-> ty, empty |-> empty, has_data |-> has_data,
     data_ty |-> data_ty, data |-> data]

ValidData ==
    [userQuery |-> PyStr("q"), agentConclusion |-> PyStr("c"),
     confidence |-> PyNum("float", 50), reasoning |-> PyStr("r")]

DictContext(data) == Context("dict", FALSE, TRUE, "dict", data)

\* `if context: self._validate_context(context) else: raise` (agent.py:309-314)
\* with _validate_context (agent.py:495-528): the message of the error
\* raised, or "" when the context is accepted
ContextError(context) ==
    LET data == context.data
        Blank(v) == v.ty # "str" \/ Strip(v.val) = ""
        missing == {f \in ContextFields : data[f] = Absent}
    IN  IF context.ty = "NoneType" \/ context.empty THEN "Context is required"
        ELSE IF context.ty # "dict" THEN "Context must be a dictionary"
        ELSE IF ~context.has_data THEN "Context must contain 'data' field"
        ELSE IF context.data_ty # "dict" THEN "Context.data must be a dictionary"
        ELSE IF missing # {} THEN "Context.data missing required fields"
        ELSE IF Blank(data["userQuery"]) THEN "userQuery must be a non-empty string"
        ELSE IF Blank(data["agentConclusion"])
        THEN "agentConclusion must be a non-empty string"
        ELSE IF \/ ~IsNumber(data["confidence"])
                \/ Less(data["confidence"], PyNum("int", 0))
                \/ Less(PyNum("int", 100), data["confidence"])
        THEN "confidence must be a number between 0 and 1"
        ELSE IF Blank(data["reasoning"]) THEN "reasoning must be a non-empty string"
        ELSE ""

\* how execute_task ends
TaskReturned(value) == [kind |-> "return", value |-> value, exc |-> ""]
TaskRaised(exc) == [kind |-> "raise", value |-> PyNoResult, exc |-> exc]

\* ask_human_rpc returned value, or raised an error of class type made from
\* an error of class cause, on the given path (validation, direct,
\* reiterator) and from the given line of agent.py
AskReturned(value, path, line) ==
    [type |-> "return", value |-> value, cause |-> "", message |-> "",
     path |-> path, line |-> line]
AskRaised(type, cause, message, path, line) ==
    [type |-> type, value |-> PyNoResult, cause |-> cause, message |-> message,
     path |-> path, line |-> line]

\* the line of the handler of ask_human_rpc that deals with an error of
\* class exc (agent.py:365-372)
HandlerOf(exc) ==
    IF exc = "ConnectionError" THEN 366
    ELSE IF exc = "JSONDecodeError" THEN 368
    ELSE IF exc = "HumanVerificationError" THEN 371
    ELSE 372

\* what the caller of ask_human_rpc gets when the try block raises exc
AskError(exc, path) ==
    LET line == HandlerOf(exc)
    IN  IF line = 366
        THEN AskRaised("HumanVerificationError", exc, "HTTP request failed", path, line)
        ELSE IF line = 368
        THEN AskRaised("HumanVerificationError", exc, "Failed to parse JSON response",
                       path, line)
        ELSE IF line = 371 THEN AskRaised(exc, exc, "", path, line)
        ELSE AskRaised("HumanVerificationError", exc, "Unexpected error", path, line)

\* UsesReiterator that looks at the instance only
UsesReiteratorIfAny(enabled, exists) == exists

\* `self.reiterator_enabled and self.reiterator` (agent.py:359)
UsesReiterator(enabled, exists) == enabled /\ exists

\* MakesReiterator that makes a fresh instance every time
MakesReiteratorAlways(exists) == TRUE

\* `if not self.reiterator` (agent.py:623)
MakesReiterator(exists) == ~exists

\* the arguments execute_with_retry gets: the task function only
OnlyTaskFunc == [args |-> <<>>, kwargs |-> [text |-> ""]]

\* ask_human_rpc is called (agent.py:296-363): the context is validated,
\* then the task function is handed to the reiterator or called directly
AskHumanRpc(context) ==
    /\ ask_pc = "idle"
    /\ pc = "idle"
    /\ ask_calls < MaxAsks
    /\ ask_calls' = ask_calls + 1
    /\ ask_context' = context
    /\ ask_runs' = runs
    /\ executions' = 0
    /\ submits' = 0
    /\ polls' = 0
    /\ disabled_in_run' = FALSE
    /\ task_outcome' = NoTaskOutcome
    /\ last_call' = "ask_human_rpc"
    /\ IF ContextError(context) # ""
       THEN /\ ask_result' = AskRaised("HumanVerificationError", "",
                                       ContextError(context), "validation", 310)
            /\ ask_pc' = "idle"
            /\ task_pc' = "idle"
       ELSE /\ ask_result' = NoAskResult
            /\ IF UsesReiterator(reiterator_enabled, reiterator_exists)
               THEN ask_pc' = "reiterator" /\ task_pc' = "idle"
               ELSE ask_pc' = "direct" /\ task_pc' = "submitting"
    /\ UNCHANGED <<reiterator_exists, reiterator_enabled, constructions,
                   reiterator_vars, unit_vars, request_vars, poll_vars,
                   session_vars>>

\* self.reiterator.execute_with_retry(execute_task) is entered (agent.py:361)
AskEntersReiterator ==
    /\ ask_pc = "reiterator"
    /\ runs = ask_runs
    /\ ExecuteWithRetry(OnlyTaskFunc)

\* execute_task has been called and is at self.post: directly
\* (agent.py:363), or by the reiterator as its task_func (reiterator.py:162)
TaskCalled ==
    \/ ask_pc = "direct" /\ task_pc = "submitting"
    \/ ask_pc = "reiterator" /\ pc = "in_task" /\ executions < Len(calls)

\* self.post ends (agent.py:333-355), giving a response or raising; when a
\* task was created, _poll_task_status is called
Submit(posted) ==
    /\ TaskCalled
    /\ executions' = executions + 1
    /\ submits' = submits + 1
    /\ last_call' = "ask_human_rpc"
    /\ IF posted.kind = "raise"
       THEN task_pc' = "ended" /\ task_outcome' = TaskRaised(posted.exc) /\ UNCHANGED polls
       ELSE IF posted.status_code \notin {200, 202}
       THEN /\ task_pc' = "ended"
            /\ task_outcome' = TaskRaised("HumanVerificationError")
            /\ UNCHANGED polls
       ELSE IF posted.text = "" \/ posted.task_id = ""
       THEN /\ task_pc' = "ended"
            /\ task_outcome' = TaskRaised("HumanVerificationError")
            /\ UNCHANGED polls
       ELSE /\ task_pc' = "polling"
            /\ polls' = polls + 1
            /\ UNCHANGED task_outcome
    /\ UNCHANGED <<reiterator_exists, reiterator_enabled, constructions, ask_pc,
                   ask_context, ask_runs, ask_result, ask_calls, disabled_in_run,
                   reiterator_vars, unit_vars, request_vars, poll_vars,
                   session_vars>>

\* _poll_task_status ends (agent.py:350), and execute_task with it
PollOutcome(outcome) ==
    /\ task_pc = "polling"
    /\ task_pc' = "ended"
    /\ task_outcome' = outcome
    /\ last_call' = "ask_human_rpc"
    /\ UNCHANGED <<reiterator_exists, reiterator_enabled, constructions, ask_pc,
                   ask_context, ask_runs, ask_result, ask_calls, disabled_in_run,
                   executions, submits, polls,
                   reiterator_vars, unit_vars, request_vars, poll_vars,
                   session_vars>>

\* execute_task hands its outcome to the reiterator that called it
TaskEnds ==
    /\ ask_pc = "reiterator"
    /\ task_pc = "ended"
    /\ executions = Len(calls)
    /\ IF task_outcome.kind = "return"
       THEN TaskReturns(task_outcome.value)
       ELSE TaskRaises(task_outcome.exc)

\* ask_human_rpc ends (agent.py:361-372) with what execute_task gave
AskEndsDirect ==
    /\ ask_pc = "direct"
    /\ task_pc = "ended"
    /\ ask_result' = IF task_outcome.kind = "return"
                     THEN AskReturned(task_outcome.value, "direct", 363)
                     ELSE AskError(task_outcome.exc, "direct")
    /\ ask_pc' = "idle"
    /\ task_pc' = "idle"
    /\ last_call' = "ask_human_rpc"
    /\ UNCHANGED <<reiterator_exists, reiterator_enabled, constructions,
                   ask_context, ask_runs, task_outcome, ask_calls, disabled_in_run,
                   executions, submits, polls,
                   reiterator_vars, unit_vars, request_vars, poll_vars,
                   session_vars>>

\* ask_human_rpc ends with what execute_with_retry gave
AskEndsReiterator ==
    /\ ask_pc = "reiterator"
    /\ runs = ask_runs + 1
    /\ pc = "idle"
    /\ ask_result' = IF run_result.type = "return"
                     THEN AskReturned(run_result.value, "reiterator", 361)
                     ELSE AskError(run_result.type, "reiterator")
    /\ ask_pc' = "idle"
    /\ task_pc' = "idle"
    /\ last_call' = "ask_human_rpc"
    /\ UNCHANGED <<reiterator_exists, reiterator_enabled, constructions,
                   ask_context, ask_runs, task_outcome, ask_calls, disabled_in_run,
                   executions, submits, polls,
                   reiterator_vars, unit_vars, request_vars, poll_vars,
                   session_vars>>

\* enable_reiterator (agent.py:616-627)
EnableReiterator ==
    /\ last_call' = "enable_reiterator"
    /\ reiterator_enabled' = TRUE
    /\ reiterator_exists' = TRUE
    /\ IF MakesReiterator(reiterator_exists)
       THEN /\ constructions' = constructions + 1
            /\ max_attempts' = 3
            /\ backoff_strategy' = "exponential"
            /\ base_delay' = 1
            /\ max_delay' = DefaultMaxDelay
            /\ current_attempt' = 0
            /\ total_retries' = 0
            /\ last_retry_time' = PyNone
            /\ current_task_id' = PyNone
            /\ last_result' = PyNoResult
            /\ active' = FALSE
       ELSE UNCHANGED <<constructions, cfg_vars, run_vars>>
    /\ UNCHANGED <<ask_pc, ask_context, ask_runs, task_pc, task_outcome, ask_result,
                   executions, submits, polls, ask_calls, disabled_in_run,
                   pc, original_args, original_kwargs, obs_vars,
                   unit_vars, request_vars, poll_vars,
                   session_vars>>

\* disable_reiterator (agent.py:629-637)
DisableReiterator ==
    /\ last_call' = "disable_reiterator"
    /\ reiterator_enabled' = FALSE
    /\ disabled_in_run' = (disabled_in_run \/ (ask_pc = "reiterator" /\ pc # "idle"))
    /\ UNCHANGED <<reiterator_exists, constructions, ask_pc, ask_context, ask_runs,
                   task_pc, task_outcome, ask_result, executions, submits, polls,
                   ask_calls, reiterator_vars, unit_vars, request_vars, poll_vars,
                   session_vars>>

\* contexts a caller passes to ask_human_rpc
Contexts ==
    {Context("NoneType", FALSE, FALSE, "dict", ValidData),
     Context("dict", TRUE, FALSE, "dict", ValidData),
     Context("str", FALSE, FALSE, "dict", ValidData),
     Context("dict", FALSE, FALSE, "dict", ValidData),
     Context("dict", FALSE, TRUE, "str", ValidData)}
    \cup {DictContext([ValidData EXCEPT ![f] = v]) :
             f \in ContextFields \ {"confidence"},
             v \in {Absent, PyStr(""), PyStr("  "), PyNum("int", 1)}}
    \cup {DictContext([ValidData EXCEPT !["confidence"] = v]) :
             v \in {Absent, PyStr("0.5"), PyNone, NaN,
                    PyNum("float", 0 - 1), PyNum("int", 100), PyNum("float", 101)}}

\* what self.post may give (Part 3): a response, or an error
Posted(status_code, text, task_id) ==
    [kind |-> "response", status_code |-> status_code, text |-> text,
     task_id |-> task_id, exc |-> ""]
PostRaised(exc) ==
    [kind |-> "raise", status_code |-> 0, text |-> "", task_id |-> "", exc |-> exc]
PostOutcomes ==
    {Posted(200, "json", "task_1"), Posted(202, "json", "task_1"),
     Posted(200, "", ""), Posted(200, "json", ""), Posted(500, "error", ""),
     PostRaised("ConnectionError")}

\* what _poll_task_status may give (Part 4): a verdict, or an error
PollOutcomes ==
    {TaskReturned(PollVerdict("task_1", NegativeResult)),
     TaskReturned(PollVerdict("task_1", ApprovedResult)),
     TaskReturned(PollVerdict("task_1", DisapprovedResult)),
     TaskRaised("HumanVerificationError"), TaskRaised("PaymentError")}

\* the reiterator's part of AutoAgent.__init__ (agent.py:114-125)
ReiteratorArguments ==
    {[reiterator |-> FALSE, max_retry_attempts |-> 3,
      backoff_strategy |-> "exponential", base_delay |-> 1],
     [reiterator |-> TRUE, max_retry_attempts |-> 2,
      backoff_strategy |-> "linear", base_delay |-> 2]}

\* an agent as its constructor leaves it
FacadeInit ==
    /\ \E given_args \in ReiteratorArguments :
          /\ reiterator_enabled = given_args.reiterator
          /\ reiterator_exists = given_args.reiterator
          /\ constructions = IF given_args.reiterator THEN 1 ELSE 0
          /\ max_attempts = IF given_args.reiterator THEN given_args.max_retry_attempts ELSE 0
          /\ backoff_strategy = IF given_args.reiterator THEN given_args.backoff_strategy ELSE ""
          /\ base_delay = IF given_args.reiterator THEN given_args.base_delay ELSE 0
          /\ max_delay = IF given_args.reiterator THEN DefaultMaxDelay ELSE 0
    /\ current_attempt = 0
    /\ total_retries = 0
    /\ last_retry_time = PyNone
    /\ current_task_id = PyNone
    /\ last_result = PyNoResult
    /\ active = FALSE
    /\ pc = "idle"
    /\ original_args = <<>>
    /\ original_kwargs = [text |-> ""]
    /\ given = OnlyTaskFunc
    /\ calls = <<>>
    /\ outcomes = <<>>
    /\ sleeps = <<>>
    /\ run_result = NoRun
    /\ retries_at_start = 0
    /\ runs = 0
    /\ UnitUnused
    /\ RequestUnused
    /\ PollUnused
    /\ AskUnused
    /\ SessionUnused

FacadeNext ==
    \/ \E context \in Contexts : AskHumanRpc(context)
    \/ AskEntersReiterator
    \/ \E posted \in PostOutcomes : Submit(posted)
    \/ \E outcome \in PollOutcomes : PollOutcome(outcome)
    \/ TaskEnds
    \/ SleepReturns
    \/ AskEndsDirect
    \/ AskEndsReiterator
    \/ EnableReiterator
    \/ DisableReiterator

FacadeSpec == FacadeInit /\ [][FacadeNext]_vars

(***************************************************************************)
(* Part 6: the constructor of Invoice (human_rpc_sdk/invoices.py) called   *)
(* on decoded bodies of every envelope shape.  The calls do not depend on  *)
(* one another, so a behaviour makes one call.                             *)
(***************************************************************************)
\* the envelope shapes _parse_invoice_data knows (invoices.py:38-49)
Envelopes == {"invoice", "payment", "accepts", "direct"}

\* the decoded body that holds the invoice fields in the given envelope
Wrap(envelope, fields) ==
    CASE envelope = "invoice" -> RawData(DictValue(fields), NoValue, NoList, NoFields)
      [] envelope = "payment" -> RawData(NoValue, DictValue(fields), NoList, NoFields)
      [] envelope = "accepts" ->
            RawData(NoValue, NoValue, ListValue(<<DictValue(fields)>>), NoFields)
      [] OTHER -> RawData(NoValue, NoValue, NoList, fields)

\* the invoice objects servers send: every combination of the fields below
InvoiceObjects ==
    { [NoFields EXCEPT !["amount"] = a, !["amountSOL"] = s, !["currency"] = c,
                       !["recipient"] = r, !["recipientWallet"] = w,
                       !["tokenAccount"] = t, !["mint"] = m, !["network"] = n,
                       !["reference"] = f] :
        a \in {Absent, PyNum("int", 5000), PyStr("5000")},
        s \in {Absent, PyNum("float", 1)},
        c \in {Absent, PyStr("sol"), PyStr("usdc"), PyStr("SPL"), PyStr("btc")},
        r \in {Absent, PyStr(" MerchantWallet "), PyStr("  ")},
        w \in {Absent, PyStr("MerchantWallet")},
        t \in {Absent, PyStr("MerchantTokenAccount")},
        m \in {Absent, PyStr("UsdcMint"), PyStr("")},
        n \in {Absent, PyStr("mainnet")},
        f \in {Absent, PyStr("ref")} }

\* decoded bodies that hold something else than a dict where the invoice
\* is looked for, or an empty list of accepted payments
OddBodies ==
    {RawData(OtherValue("str"), NoValue, NoList, SolInvoice.data),
     RawData(NoValue, OtherValue("list"), NoList, SolInvoice.data),
     RawData(NoValue, NoValue, ListValue(<<>>), SolInvoice.data),
     RawData(NoValue, NoValue, ListValue(<<OtherValue("str")>>), SolInvoice.data),
     RawData(DictValue(NoFields), DictValue(SolInvoice.data), NoList, NoFields)}

\* what the getters of an Invoice give (invoices.py:94-183)
Descriptor(invoice_data) ==
    [currency |-> get_currency(invoice_data),
     amount |-> get_amount_lamports(invoice_data),
     recipient |-> get_recipient(invoice_data),
     mint |-> get_mint(invoice_data),
     network |-> get_network(invoice_data),
     reference |-> get_reference(invoice_data)]
NoDescriptor == Descriptor(NoFields)

\* the result of one call of Invoice(raw_data): the error, or the new
\* Invoice with what its getters give
Constructed(envelope, fields, raw_data) ==
    LET made == Invoice(raw_data)
    IN  [fn |-> "Invoice", envelope |-> envelope, fields |-> fields,
         raw_data |-> raw_data, out |-> made,
         descriptor |-> IF made.ok THEN Descriptor(made.value.invoice_data)
                        ELSE NoDescriptor]

\* Invoice is constructed from an invoice object in some envelope
ConstructInvoice ==
    /\ applied = NoCall
    /\ \E envelope \in Envelopes, fields \in InvoiceObjects :
         applied' = Constructed(envelope, fields, Wrap(envelope, fields))
    /\ UNCHANGED outside_unit

\* Invoice is constructed from a body of another shape
ConstructFromOddBody ==
    /\ applied = NoCall
    /\ \E raw_data \in OddBodies :
         applied' = Constructed("odd", NoFields, raw_data)
    /\ UNCHANGED outside_unit

InvoiceInit == RequestInit

InvoiceNext ==
    \/ ConstructInvoice
    \/ ConstructFromOddBody

InvoiceSpec == InvoiceInit /\ [][InvoiceNext]_vars

(***************************************************************************)
(* Part 7: session management (human_rpc_sdk/agent.py:374-461).  The       *)
(* constructor creates the session and starts the heartbeat thread         *)
(* (_start_session_management); terminate_session runs in the caller's     *)
(* thread, or in a signal or exit handler.  Each thread is split where it  *)
(* blocks: the heartbeat thread in Event.wait and in its POST, the caller  *)
(* in Thread.join and in its DELETE.  Between two blocking calls a thread  *)
(* takes one step, so the end of the wait and the sending of the POST are  *)
(* one step.  The two threads share session_id and shutdown_event, and     *)
(* nothing else orders them.                                               *)
(***************************************************************************)
MaxHeartbeats == 2
MaxTerminations == 2

\* the "sessionId" of the server's answers
ServerSession == "session_1"

\* how the POST of _create_or_update_session may end (agent.py:410-421):
\* a 200 with a sessionId, a 200 without one, another status, an exception
SessionAnswers == {"updated", "without_id", "refused", "raised"}

\* how the DELETE of terminate_session may end (agent.py:450-461): a 200, another
\* status, or an exception of the transport or of response.json()
DeleteAnswers == {"terminated", "refused", "raised"}

\* self.session_id after _create_or_update_session got this answer
SessionAfter(answer, current) ==
    CASE answer = "updated" -> ServerSession
      [] answer = "without_id" -> NoSession
      [] OTHER -> current

\* _heartbeat_worker: while not self._shutdown_event.is_set()
HeartbeatLoops ==
    /\ heartbeat_pc = "loop"
    /\ heartbeat_pc' = IF shutdown_event THEN "ended" ELSE "waiting"
    /\ UNCHANGED <<session_id, shutdown_event, terminate_pc, heartbeats,
                   late_heartbeats, deletions, terminations>>
    /\ UNCHANGED <<reiterator_vars, unit_vars, request_vars, poll_vars,
                   facade_vars>>

\* self._shutdown_event.wait(self.heartbeat_interval) returns: true and the
\* thread breaks, or false after the interval and the thread sends its POST
HeartbeatWaitReturns ==
    /\ heartbeat_pc = "waiting"
    /\ shutdown_event \/ heartbeats < MaxHeartbeats
    /\ IF shutdown_event
          THEN /\ heartbeat_pc' = "ended"
               /\ UNCHANGED <<heartbeats, late_heartbeats>>
          ELSE /\ heartbeat_pc' = "posting"
               /\ heartbeats' = heartbeats + 1
               /\ late_heartbeats' =
                      late_heartbeats + (IF terminations > 0 THEN 1 ELSE 0)
    /\ UNCHANGED <<session_id, shutdown_event, terminate_pc, deletions,
                   terminations>>
    /\ UNCHANGED <<reiterator_vars, unit_vars, request_vars, poll_vars,
                   facade_vars>>

\* the POST of the heartbeat ends, within its timeout of 10 seconds
HeartbeatPostEnds(answer) ==
    /\ heartbeat_pc = "posting"
    /\ session_id' = SessionAfter(answer, session_id)
    /\ heartbeat_pc' = "loop"
    /\ UNCHANGED <<shutdown_event, terminate_pc, heartbeats, late_heartbeats,
                   deletions, terminations>>
    /\ UNCHANGED <<reiterator_vars, unit_vars, request_vars, poll_vars,
                   facade_vars>>

\* terminate_session is called: it sets the event, and joins the heartbeat
\* thread if that is alive
TerminateSession ==
    /\ terminate_pc \in {"not_called", "returned"}
    /\ terminations < MaxTerminations
    /\ shutdown_event' = TRUE
    /\ terminate_pc' = IF heartbeat_pc # "ended" THEN "joining" ELSE "joined"
    /\ UNCHANGED <<session_id, heartbeat_pc, heartbeats, late_heartbeats,
                   deletions, terminations>>
    /\ UNCHANGED <<reiterator_vars, unit_vars, request_vars, poll_vars,
                   facade_vars>>

\* the join may wait no longer: the thread has ended, or the 5 seconds of
\* join(timeout=5) are over while the thread is in its POST
JoinOver == heartbeat_pc \in {"ended", "posting"}

\* self._heartbeat_thread.join(timeout=5) returns
JoinReturns ==
    /\ terminate_pc = "joining"
    /\ JoinOver
    /\ terminate_pc' = "joined"
    /\ UNCHANGED <<session_id, shutdown_event, heartbeat_pc, heartbeats,
                   late_heartbeats, deletions, terminations>>
    /\ UNCHANGED <<reiterator_vars, unit_vars, request_vars, poll_vars,
                   facade_vars>>

\* if self.session_id: the DELETE is sent; otherwise terminate_session
\* sets session_id to None and returns
TerminateChecksSession ==
    /\ terminate_pc = "joined"
    /\ IF session_id # NoSession
          THEN /\ terminate_pc' = "deleting"
               /\ deletions' = deletions + 1
               /\ UNCHANGED <<session_id, terminations>>
          ELSE /\ terminate_pc' = "returned"
               /\ session_id' = NoSession
               /\ terminations' = terminations + 1
               /\ UNCHANGED deletions
    /\ UNCHANGED <<shutdown_event, heartbeat_pc, heartbeats, late_heartbeats>>
    /\ UNCHANGED <<reiterator_vars, unit_vars, request_vars, poll_vars,
                   facade_vars>>

\* self.session_id when terminate_session returns after this answer to its
\* DELETE: the except clause is entered before the assignment of None
SessionAfterDelete(answer, current) ==
    IF answer = "raised" THEN current ELSE NoSession

\* the DELETE ends, and terminate_session returns
DeleteEnds(answer) ==
    /\ terminate_pc = "deleting"
    /\ session_id' = SessionAfterDelete(answer, session_id)
    /\ terminate_pc' = "returned"
    /\ terminations' = terminations + 1
    /\ UNCHANGED <<shutdown_event, heartbeat_pc, heartbeats, late_heartbeats,
                   deletions>>
    /\ UNCHANGED <<reiterator_vars, unit_vars, request_vars, poll_vars,
                   facade_vars>>

\* an agent constructed with session management: the first
\* _create_or_update_session has ended and the heartbeat thread is started
SessionInit ==
    /\ AgentWithDefaults
    /\ \E answer \in SessionAnswers :
         session_id = SessionAfter(answer, NoSession)
    /\ shutdown_event = FALSE
    /\ heartbeat_pc = "loop"
    /\ terminate_pc = "not_called"
    /\ heartbeats = 0
    /\ late_heartbeats = 0
    /\ deletions = 0
    /\ terminations = 0

SessionNext ==
    \/ HeartbeatLoops
    \/ HeartbeatWaitReturns
    \/ \E answer \in SessionAnswers : HeartbeatPostEnds(answer)
    \/ TerminateSession
    \/ JoinReturns
    \/ TerminateChecksSession
    \/ \E answer \in DeleteAnswers : DeleteEnds(answer)

SessionSpec == SessionInit /\ [][SessionNext]_vars



(***************************************************************************)
(* Properties of execute_with_retry.                                       *)
(*                                                                         *)
(* An attempt is one call of task_func together with the handling of what  *)
(* it yields.  The attempts of a run are told apart by the way the loop    *)
(* treats what task_func yielded:                                          *)
(*   - a negative verdict: a returned value on which should_retry is true; *)
(*   - a non-negative verdict: a returned value on which it is false;      *)
(*   - a failed attempt: an error that `except Exception` handles, raised  *)
(*     by task_func or while its result is examined.                       *)
(* An error that the loop lets through (one of the reiterator's own two    *)
(* classes raised by task_func, or a BaseException) ends the run without   *)
(* being counted as an attempt.                                            *)
(***************************************************************************)
Judged(o) == should_retry(o.value, 0)

NegativeVerdict(o) == o.kind = "return" /\ ~Judged(o).raised /\ Judged(o).value

NonNegativeVerdict(o) == o.kind = "return" /\ ~Judged(o).raised /\ ~Judged(o).value

AttemptRaised(o) ==
    \/ o.kind = "raise" /\ IsException(o.exc) /\ ~IsReiteratorError(o.exc)
    \/ o.kind = "return" /\ Judged(o).raised

\* the text of the error of a failed attempt
CauseOf(o) == IF o.kind = "raise" THEN o.exc ELSE "AttributeError"

AllNegative(n) == \A i \in 1..n : NegativeVerdict(outcomes[i])

\* number of negative verdicts returned so far in the run
NegativeCount == Cardinality({i \in 1..Len(outcomes) : NegativeVerdict(outcomes[i])})

\* C1: positive-consensus short circuit.  When attempts 1..k-1 of a run
\* returned negative verdicts and attempt k returned a non-negative verdict,
\* task_func has been called exactly k times, the run has returned the verdict
\* of attempt k, and no further call is made, however many attempts remain.
C1_PositiveShortCircuit ==
    \A k \in 1..Len(outcomes) :
        (AllNegative(k - 1) /\ NonNegativeVerdict(outcomes[k]))
        => /\ Len(calls) = k
           /\ Len(outcomes) = k
           /\ pc = "idle"
           /\ run_result = Returned(outcomes[k].value)

\* a run returned at its second attempt with a third attempt still allowed
C1_Witness ==
    /\ max_attempts = 3
    /\ Len(outcomes) = 2
    /\ NegativeVerdict(outcomes[1])
    /\ outcomes[2].value = VerdictPositive
    /\ Len(calls) = 2
    /\ run_result = Returned(VerdictPositive)

\* C2: exhaustion.  While task_func returns a negative verdict on every call,
\* the run never returns a verdict; once max_attempts calls have been made it
\* has raised ReiteratorMaxAttemptsError holding the final verdict, and
\* task_func has been called exactly max_attempts times.
C2_Exhaustion ==
    (Len(outcomes) >= 1 /\ AllNegative(Len(outcomes)))
    => /\ run_result.type # "return"
       /\ Len(calls) <= max_attempts
       /\ Len(outcomes) < max_attempts =>
            run_result.type \in {"none", "KeyboardInterrupt"}
       /\ Len(outcomes) = max_attempts =>
            /\ pc = "idle"
            /\ Len(calls) = max_attempts
            /\ run_result = Raised("ReiteratorMaxAttemptsError",
                                   outcomes[max_attempts].value, "", 186)

\* three negative verdicts used up three attempts
C2_Witness ==
    /\ max_attempts = 3
    /\ Len(outcomes) = 3
    /\ AllNegative(3)
    /\ Len(calls) = 3
    /\ run_result.type = "ReiteratorMaxAttemptsError"
    /\ run_result.value = outcomes[3].value

\* C3: bounded attempts.  Whatever task_func yields, a run calls it at most
\* max_attempts times, and once max_attempts calls have ended the run has
\* ended (by returning or by raising).
C3_AttemptsBounded ==
    /\ Len(calls) <= max_attempts
    /\ Len(outcomes) = max_attempts => (pc = "idle" /\ run_result.type # "none")

\* a run of three attempts: a negative verdict, then an error, then a third call
C3_Witness ==
    /\ max_attempts = 3
    /\ Len(outcomes) = 3
    /\ NegativeVerdict(outcomes[1])
    /\ outcomes[2].kind = "raise"
    /\ Len(calls) = 3
    /\ pc = "idle"

C5_ParametersPreserved ==
    \A i \in 1..Len(calls) : calls[i] = [args |-> given.args, kwargs |-> given.kwargs]

\* a third call, made after a negative verdict and after an error
C5_Witness ==
    /\ Len(calls) = 3
    /\ Len(outcomes) >= 2
    /\ NegativeVerdict(outcomes[1])
    /\ AttemptRaised(outcomes[2])
    /\ given.args = <<7>>
    /\ calls[3].kwargs.text = "a"

\* C6: the active flag.  active holds exactly while a run of
\* execute_with_retry is in progress: not before the first run, not after any
\* way a run ends, not after reset().
C6_ActiveWhileRunning == active <=> pc # "idle"

\* a run ended by an error that the loop does not handle
C6_Witness ==
    /\ pc = "idle"
    /\ run_result.type = "KeyboardInterrupt"
    /\ ~active

\* C7 as stated: an exhausted run of negative verdicts adds max_attempts - 1
\* to total_retries.
C7_Original ==
    (Len(outcomes) = max_attempts /\ AllNegative(max_attempts))
    => total_retries - retries_at_start = max_attempts - 1

\* C7, amended: an exhausted run of negative verdicts adds exactly
\* max_attempts to total_retries (the final negative verdict is counted too).
C7_ExhaustionCount ==
    (Len(outcomes) = max_attempts /\ AllNegative(max_attempts))
    => total_retries - retries_at_start = max_attempts

\* the second run on an instance, exhausted after two negative verdicts
C7_Witness ==
    /\ max_attempts = 2
    /\ Len(outcomes) = 2
    /\ AllNegative(2)
    /\ runs = 2
    /\ retries_at_start > 0
    /\ total_retries = retries_at_start + 2

\* C8: total_retries grows by one for each negative verdict returned, the
\* one that uses up the attempts included, and by nothing else.
C8_RetriesCountNegatives ==
    /\ total_retries - retries_at_start = NegativeCount
    /\ (Len(outcomes) = 3 /\ AllNegative(2) /\ NonNegativeVerdict(outcomes[3]))
       => total_retries = retries_at_start + 2
    /\ (max_attempts = 2 /\ Len(outcomes) = 2 /\ AllNegative(2))
       => total_retries = retries_at_start + 2

\* negative, failed, non-negative: one retry counted
C8_Witness ==
    /\ Len(outcomes) = 3
    /\ NegativeVerdict(outcomes[1])
    /\ AttemptRaised(outcomes[2])
    /\ NonNegativeVerdict(outcomes[3])
    /\ total_retries = retries_at_start + 1

\* the run was cut short while sleeping
Interrupted == run_result.type = "KeyboardInterrupt" /\ run_result.line = 202

\* C9: backoff after negative verdicts.  When attempt n returned a negative
\* verdict and n < max_attempts, the n-th sleep of the run is
\* calculate_delay(n - 1) and precedes call n + 1; the attempt that ends the
\* run is followed by no sleep.  With max_attempts 3, exponential, base delay
\* 1, max delay 60 and negative, negative, non-negative: sleeps 1 and 2, three
\* calls.
C9_NegativeBackoff ==
    /\ \A n \in 1..Len(outcomes) :
         (NegativeVerdict(outcomes[n]) /\ n < max_attempts)
         => (Len(sleeps) >= n /\ sleeps[n] = calculate_delay(n - 1))
    /\ Len(calls) <= Len(sleeps) + 1
    /\ (pc = "idle" /\ ~Interrupted /\ Len(outcomes) >= 1)
       => Len(sleeps) = Len(outcomes) - 1
    /\ pc = "sleeping" => Len(sleeps) = Len(outcomes)
    /\ (/\ max_attempts = 3 /\ backoff_strategy = "exponential"
        /\ base_delay = 1 /\ max_delay = 60
        /\ Len(outcomes) = 3 /\ AllNegative(2) /\ NonNegativeVerdict(outcomes[3]))
       => (sleeps = <<1, 2>> /\ Len(calls) = 3)

\* the scenario: negative, negative, positive under the default policy
C9_Witness ==
    /\ max_attempts = 3 /\ backoff_strategy = "exponential"
    /\ base_delay = 1 /\ max_delay = 60
    /\ Len(outcomes) = 3 /\ AllNegative(2) /\ NonNegativeVerdict(outcomes[3])
    /\ sleeps = <<1, 2>>
    /\ pc = "idle"

\* C10: backoff after errors.  When attempt n failed and n < max_attempts,
\* current_attempt was n and the n-th sleep of the run is
\* min(base_delay * 2^(n-1), max_delay), whatever the strategy; a failed last
\* attempt is followed by no sleep.
C10_ErrorBackoff ==
    /\ \A n \in 1..Len(outcomes) :
         (AttemptRaised(outcomes[n]) /\ n < max_attempts)
         => /\ Len(sleeps) >= n
            /\ sleeps[n] = Min(base_delay * Pow2(n - 1), max_delay)
    /\ (Len(outcomes) = max_attempts /\ AttemptRaised(outcomes[max_attempts]))
       => Len(sleeps) = max_attempts - 1
    /\ (pc = "sleeping" /\ AttemptRaised(outcomes[Len(outcomes)]))
       => current_attempt = Len(outcomes)

\* two errors under the fixed strategy: the second sleep is twice the base
C10_Witness ==
    /\ backoff_strategy = "fixed"
    /\ base_delay = 1
    /\ Len(outcomes) >= 2
    /\ outcomes[1].kind = "raise"
    /\ outcomes[2].kind = "raise" /\ outcomes[2].exc = "Exception"
    /\ Len(sleeps) >= 2
    /\ sleeps[2] = 2
    /\ sleeps[2] # calculate_delay(1)

(***************************************************************************)
(* Claims about single calls (UnitSpec).                                   *)
(***************************************************************************)
\* the delay that the backoff rule gives for attempt index i
ExpectedDelay(i) ==
    CASE backoff_strategy = "fixed" -> Min(base_delay, max_delay)
      [] backoff_strategy = "linear" -> Min(base_delay * (i + 1), max_delay)
      [] backoff_strategy = "exponential" -> Min(base_delay * 2^i, max_delay)

TextIn(result, key, words) ==
    LET v == result.items[key]
    IN  v.ty = "str" /\ Lower(v.val) \in words

\* the value under key is a str, or the key is missing
Textual(result, key) == result.items[key].ty \in {"str", "absent"}

\* should_retry was called with an attempt count below the limit
JudgedBelowLimit ==
    applied.fn = "should_retry" /\ applied.attempt_count < max_attempts

\* C12 as stated: below the attempt limit should_retry answers true exactly
\* when sentiment or decision, in any case, is one of the six words negative,
\* reject, disapprove, deny, refuse, no, or approved is false, or consensus
\* equals "negative", and false for every other verdict.
C12_Original ==
    JudgedBelowLimit =>
        LET r == applied.result
            words == {"negative", "reject", "disapprove", "deny", "refuse", "no"}
            negative ==
                /\ IsDict(r)
                /\ \/ TextIn(r, "sentiment", words)
                   \/ TextIn(r, "decision", words)
                   \/ r.items["approved"] = PyBool(FALSE)
                   \/ r.items["consensus"] = PyStr("negative")
        IN  applied.out = [raised |-> FALSE, value |-> negative]

\* C12, amended: below the attempt limit should_retry answers true exactly
\* when the verdict is a dict and its sentiment, in any case, is one of
\* negative, reject, disapprove, deny, refuse, or its decision, in any case,
\* is one of reject, deny, disapprove, negative, no, or approved is the
\* boolean false, or consensus, in any case, is "negative"; it answers false
\* for every other verdict whose sentiment, decision and consensus are
\* strings or missing, and for what is no dict.  Where sentiment or decision
\* is no string, or consensus is no string and is consulted, it raises.
C12_NegativeVerdicts ==
    JudgedBelowLimit =>
        LET r == applied.result
            byText ==
                \/ TextIn(r, "sentiment",
                          {"negative", "reject", "disapprove", "deny", "refuse"})
                \/ TextIn(r, "decision",
                          {"reject", "deny", "disapprove", "negative", "no"})
            byFlag == r.items["approved"] = PyBool(FALSE)
            byConsensus == TextIn(r, "consensus", {"negative"})
            Answer(b) == [raised |-> FALSE, value |-> b]
        IN  IF ~IsDict(r) THEN applied.out = Answer(FALSE)
            ELSE IF ~Textual(r, "sentiment") \/ ~Textual(r, "decision")
                 THEN applied.out.raised
            ELSE IF byText \/ byFlag THEN applied.out = Answer(TRUE)
            ELSE IF ~Textual(r, "consensus") THEN applied.out.raised
            ELSE applied.out = Answer(byConsensus)

\* a verdict whose sentiment is "no" and nothing else was judged not negative
C12_Witness ==
    /\ JudgedBelowLimit
    /\ applied.result = PyDict([NoItems EXCEPT !["sentiment"] = PyStr("no")])
    /\ applied.out = [raised |-> FALSE, value |-> FALSE]

\* the constructor's arguments meet the stated conditions: max_attempts an
\* integer >= 1, a known strategy, base_delay > 0, max_delay >= base_delay
StatedValid(args) ==
    /\ args.max_attempts.ty = "int"
    /\ args.max_attempts.n >= 1
    /\ args.backoff_strategy \in
          {PyStr("fixed"), PyStr("linear"), PyStr("exponential")}
    /\ args.base_delay.ty \in {"int", "float"}
    /\ args.base_delay.n > 0
    /\ args.max_delay.ty \in {"int", "float"}
    /\ args.max_delay.n >= args.base_delay.n

\* C14: the constructor succeeds exactly when its arguments meet the stated
\* conditions, and the instance then holds the four values as given (the
\* delays equal in value); with any other arguments it raises
\* ReiteratorConfigurationError and there is no instance.
C14_Construction ==
    applied.fn = "__init__" =>
        LET args == applied.args
            out == applied.out
        IN  IF StatedValid(args)
            THEN /\ out.raised = ""
                 /\ out.instance.exists
                 /\ out.instance.max_attempts = args.max_attempts
                 /\ out.instance.backoff_strategy = args.backoff_strategy
                 /\ out.instance.base_delay.n = args.base_delay.n
                 /\ out.instance.max_delay.n = args.max_delay.n
            ELSE /\ out.raised # ""
                 /\ ~out.instance.exists

(***************************************************************************)
(* Claims about runs (Spec), continued.                                    *)
(***************************************************************************)
\* a result of a shape should_retry has no rule for: no dict, or a dict
\* whose sentiment, decision or consensus is not a string
OddShape(value) ==
    \/ ~IsDict(value)
    \/ \E key \in {"sentiment", "decision", "consensus"} : ~Textual(value, key)

\* C13: should_retry is total.  For a result of any shape it answers, and
\* for an odd shape it answers "not negative"; so a run in which task_func
\* returned a result of an odd shape has returned that result after that
\* call, without a retry and without an error.
C13_Total ==
    \A k \in 1..Len(outcomes) :
        (outcomes[k].kind = "return" /\ OddShape(outcomes[k].value))
        => /\ Judged(outcomes[k]) = [raised |-> FALSE, value |-> FALSE]
           /\ Len(outcomes) = k
           /\ Len(calls) = k
           /\ pc = "idle"
           /\ run_result = Returned(outcomes[k].value)

\* C15: reset() sets current_attempt to 0 and active to false, clears
\* current_task_id, last_result and last_retry_time, and leaves total_retries
\* and the configuration as they were, whenever it is called between runs.
C15_ResetFrame ==
    [][ run_result'.type = "reset" =>
            /\ current_attempt' = 0
            /\ active' = FALSE
            /\ current_task_id' = PyNone
            /\ last_result' = PyNoResult
            /\ last_retry_time' = PyNone
            /\ total_retries' = total_retries
            /\ cfg_vars' = cfg_vars ]_vars

\* reset() after a run of two negative verdicts that used up two attempts
C15_Witness ==
    /\ run_result.type = "reset"
    /\ runs = 1
    /\ max_attempts = 2
    /\ total_retries = 2
    /\ current_attempt = 0
    /\ last_result = PyNoResult
    /\ current_task_id = PyNone
    /\ last_retry_time = PyNone

\* C16: a run starts afresh.  During the first attempt of every run
\* get_status shows attempt count 0, the run active, no task id and no last
\* result, whatever the previous run on the instance left behind.
C16_FreshRun ==
    (pc = "in_task" /\ Len(calls) = 1)
    => /\ get_status.active
       /\ get_status.attempt_count = 0
       /\ get_status.current_task_id = PyNone
       /\ get_status.last_result = PyNone

(***************************************************************************)
(* Claims about AutoAgent.request (RequestSpec).                           *)
(***************************************************************************)
\* the HTTP request that the arguments of the call describe
GivenRequest ==
    HttpRequest(req_args.method, req_args.url,
                IF req_args.headers_given THEN req_args.headers ELSE NoHeaders,
                req_args.body)

\* C17: pass-through.  When the first response has a status other than 402,
\* request has made exactly one HTTP request, the one its arguments describe,
\* has called neither the invoice parser nor the wallet nor the builder, and
\* has returned that response as it is.
C17_PassThrough ==
    (Len(responses) >= 1 /\ responses[1].status_code # 402)
    => /\ Len(responses) = 1
       /\ req_pc = "idle"
       /\ sent = <<GivenRequest>>
       /\ collaborators = NoCollaboratorCalls
       /\ invoice = NoInvoice
       /\ req_result.type = "return"
       /\ req_result.response = responses[1]

\* a 404 whose body looks like an invoice was returned untouched
C17_Witness ==
    /\ responses = <<Response(404, SolInvoice)>>
    /\ req_result.type = "return"
    /\ req_result.response = Response(404, SolInvoice)
    /\ Len(sent) = 1

\* C18: one-shot payment.  Whatever the server answers, one call of request
\* sends at most two HTTP requests and asks the wallet for its signer and
\* calls the builder at most once each; a second request is sent only after
\* the one build.
C18_OneShot ==
    /\ Len(sent) <= 2
    /\ Len(responses) <= 2
    /\ collaborators.get_signer <= 1
    /\ collaborators.build_payment_transaction <= 1
    /\ collaborators.parse_invoice_from_response <= 1
    /\ Len(sent) = 2 => collaborators.build_payment_transaction = 1

\* the resubmission was answered by 402 again and request ended there
C18_Witness ==
    /\ Len(sent) = 2
    /\ Len(responses) = 2
    /\ responses[2] = Response(402, UsdcInvoice)
    /\ req_pc = "idle"
    /\ collaborators.build_payment_transaction = 1
    /\ collaborators.get_signer = 1

\* C19: outcome after payment.  Once the resubmission has been answered,
\* request has raised PaymentError (payment not accepted) if the answer is
\* 402 again, and has otherwise returned that answer as it is, whatever its
\* status.
C19_OutcomeAfterPayment ==
    Len(responses) = 2
    => /\ req_pc = "idle"
       /\ responses[1].status_code = 402
       /\ serialized_tx.ok
       /\ IF responses[2].status_code = 402
          THEN /\ req_result.type = "PaymentError"
               /\ req_result.message = "Payment verification failed"
          ELSE req_result = RequestReturned(responses[2], 252)

\* a 500 that answered the paid resubmission was returned to the caller
C19_Witness ==
    /\ Len(responses) = 2
    /\ responses[1] = Response(402, SolInvoice)
    /\ responses[2].status_code = 500
    /\ req_result.type = "return"
    /\ req_result.response = responses[2]

\* the failure of invoice parsing (parse_invoice_from_response and the
\* getters called on the invoice) for the text of a 402 response, if any
ParsingFailure(text) ==
    LET parsed == parse_invoice_from_response(text)
        amount == get_amount_lamports(text.data)
        network == get_network(text.data)
    IN  IF ~parsed.ok THEN parsed
        ELSE IF ~amount.ok THEN amount
        ELSE IF ~network.ok THEN network
        ELSE Ok(text)

\* C20: failed payment.  When the first response is 402 and parsing the
\* invoice fails, or building and signing the transfer fails, request has
\* raised PaymentError holding the text of that failure, has sent no
\* resubmission (one HTTP request in all) and no X-PAYMENT header.
C20_PaymentFailure ==
    (Len(responses) >= 1 /\ responses[1].status_code = 402)
    => LET parsing == ParsingFailure(responses[1].text)
           building == serialized_tx
           failed == ~parsing.ok \/ (building # NoTransaction /\ ~building.ok)
           failure == IF ~parsing.ok THEN parsing ELSE building
       IN  failed =>
              /\ req_pc = "idle"
              /\ req_result.type = "PaymentError"
              /\ failure.text # ""
              /\ req_result.cause = failure.text
              /\ Len(responses) = 1
              /\ sent = <<GivenRequest>>
              /\ sent[1].headers["X-PAYMENT"] = HeaderAbsent

\* the RPC node was unreachable while the transfer was built
C20_Witness ==
    /\ responses = <<Response(402, SolInvoice)>>
    /\ serialized_tx = Err("TransactionBuildError", "Failed to get recent blockhash")
    /\ req_result.type = "PaymentError"
    /\ req_result.cause = "Failed to get recent blockhash"
    /\ Len(sent) = 1
    /\ collaborators.build_payment_transaction = 1

(***************************************************************************)
(* Claims about _poll_task_status (PollSpec, PollLiveSpec).                *)
(***************************************************************************)
\* the seconds since the poll began
Elapsed == now - start_time

\* the status query under way, or the last one, was answered first by r
FirstAnswer(r) == poll_pc # "idle" /\ Len(responses) >= 1 /\ r = responses[1]

\* self.get has handed response r to the poller, which has dealt with it
\* unless the poll is still at "waiting"
Polled(r) ==
    /\ poll_pc # "idle"
    /\ req_pc = "idle"
    /\ req_result.type = "return"
    /\ r = req_result.response

\* the poll has ended on its deadline
TimedOut ==
    /\ poll_pc = "done"
    /\ poll_result.type = "HumanVerificationError"
    /\ poll_result.line = 563

\* C21: a status response whose code is neither 200 nor in 500..599 ends the
\* poll at once with HumanVerificationError: for that response one HTTP
\* request has been sent and no more, no collaborator has been called, no
\* sleep follows and no further query is issued.
C21_FatalStatus ==
    \A r \in StatusResponses :
        (FirstAnswer(r) /\ r.status_code # 200
                       /\ ~(500 <= r.status_code /\ r.status_code <= 599))
        => /\ req_pc = "idle"
           /\ Len(sent) = 1
           /\ collaborators = NoCollaboratorCalls
           /\ poll_pc \in {"waiting", "done"}
           /\ poll_pc = "done" =>
                 /\ poll_result.type = "HumanVerificationError"
                 /\ poll_result.line \in {571, 580}

\* C22: a 5xx response, or a 200 response whose status is not "completed",
\* does not end the poll: the poller sleeps poll_interval and raises
\* nothing for it, and after the sleep it queries the status again unless
\* the deadline has been reached.
C22_TransientContinues ==
    /\ [](\A r \in StatusResponses :
            (/\ Polled(r)
             /\ \/ (500 <= r.status_code /\ r.status_code <= 599)
                \/ (r.status_code = 200 /\ r.text.json
                      /\ r.text.task.status # PyStr("completed")))
            => \/ poll_pc = "waiting"
               \/ /\ poll_pc = "sleeping"
                  /\ poll_result = NoPollResult
                  /\ Len(poll_sleeps) >= 1
                  /\ poll_sleeps[Len(poll_sleeps)] = poll_args.poll_interval
               \/ /\ TimedOut
                  /\ DeadlineReached(Elapsed, poll_args.max_wait_seconds)
                  /\ Len(poll_sleeps) >= 1)
    /\ [][poll_pc = "sleeping" /\ poll_pc' # "sleeping"
            => \/ poll_pc' = "waiting" /\ queries' = queries + 1
                  /\ poll_result' = NoPollResult
               \/ TimedOut' /\ DeadlineReached(Elapsed', poll_args.max_wait_seconds)]_vars

\* the poller sleeps after a 503, having slept once before
C22_Witness ==
    /\ poll_pc = "sleeping"
    /\ req_result.type = "return"
    /\ req_result.response.status_code = 503
    /\ queries = 2
    /\ poll_sleeps = <<2, 2>>

\* C23: a 200 response with status "completed" ends the poll.  With a result
\* that is not empty the poll returns a verdict holding the polled task id,
\* the sentiment, decision and confidence of the result, and the result
\* itself; with an empty, null or missing result it raises
\* HumanVerificationError and returns nothing.
C23_Completed ==
    \A r \in StatusResponses :
        (Polled(r) /\ r.status_code = 200 /\ r.text.json
                   /\ r.text.task.status = PyStr("completed"))
        => LET result == r.text.task.result
               Carried(key, value) == result.items[key] # Absent => value = result.items[key]
           IN  /\ poll_pc \in {"waiting", "done"}
               /\ poll_pc = "done" =>
                     IF result \in {MissingResult, NullResult, EmptyResult}
                     THEN /\ poll_result.type = "HumanVerificationError"
                          /\ poll_result.line = 590
                     ELSE /\ poll_result.type = "return"
                          /\ poll_result.verdict.items["task_id"] = PyStr(poll_args.task_id)
                          /\ Carried("sentiment", poll_result.verdict.items["sentiment"])
                          /\ Carried("decision", poll_result.verdict.items["decision"])
                          /\ Carried("confidence", poll_result.verdict.confidence)
                          /\ poll_result.verdict.result = result

\* the second query found the task completed with a negative result
C23_Witness ==
    /\ poll_pc = "done"
    /\ queries = 2
    /\ poll_result.type = "return"
    /\ poll_result.verdict.items["task_id"] = PyStr("task_1")
    /\ poll_result.verdict.items["sentiment"] = PyStr("negative")
    /\ poll_result.verdict.confidence = PyNum("float", 90)
    /\ poll_result.verdict.result = NegativeResult

\* C24: the deadline.  With max_wait_seconds set, a query is issued only
\* while the elapsed time is below it, the poll raises
\* HumanVerificationError at the first head of the loop where the elapsed
\* time has reached it, without a query in that iteration, and so every
\* poll ends.  With max_wait_seconds unset the poll never raises a timeout
\* and never ends on a 5xx or a pending answer.
C24_Deadline ==
    /\ [](/\ (poll_pc = "waiting" /\ poll_args.max_wait_seconds # PyNone)
              => Elapsed < poll_args.max_wait_seconds.n
          /\ TimedOut => /\ poll_args.max_wait_seconds # PyNone
                         /\ Elapsed >= poll_args.max_wait_seconds.n
          /\ (poll_pc = "done" /\ poll_args.max_wait_seconds = PyNone)
              => /\ poll_result.line # 563
                 /\ req_result.type = "return" =>
                       /\ ~(500 <= req_result.response.status_code
                             /\ req_result.response.status_code <= 599)
                       /\ (req_result.response.status_code = 200
                            /\ req_result.response.text.json)
                           => req_result.response.text.task.status = PyStr("completed"))
    /\ [][TimedOut' /\ ~TimedOut => queries' = queries /\ sent' = sent]_vars
    /\ ((poll_pc # "idle" /\ poll_args.max_wait_seconds # PyNone) ~> poll_pc = "done")

\* a poll with a deadline of 3 s ended on it after two queries
C24_Witness ==
    /\ TimedOut
    /\ poll_args.max_wait_seconds = PyNum("int", 3)
    /\ queries = 2
    /\ Elapsed = 3

(***************************************************************************)
(* Claims about the facade (FacadeSpec).                                   *)
(***************************************************************************)
\* the step is an accepted call of ask_human_rpc
AskAccepted == ask_calls' = ask_calls + 1 /\ ContextError(ask_context') = ""

\* the last call of ask_human_rpc has ended, having taken the given path
AskEnded(path) == ask_pc = "idle" /\ ask_result.path = path

\* C25: with retry disabled an accepted call of ask_human_rpc calls
\* execute_task directly: it submits once, polls at most once, its steps
\* leave the reiterator's state alone, and a verdict that execute_task
\* returns, negative or not, is what the caller gets.
C25_DirectOnce ==
    /\ [][AskAccepted /\ ~reiterator_enabled => ask_pc' = "direct"]_vars
    /\ [](ask_pc = "direct" => executions <= 1 /\ submits <= 1 /\ polls <= submits)
    /\ [](AskEnded("direct")
          => /\ executions = 1 /\ submits = 1 /\ polls <= 1
             /\ task_outcome.kind = "return"
                  => ask_result = AskReturned(task_outcome.value, "direct", 363))
    /\ [][ask_pc = "direct" /\ last_call' = "ask_human_rpc"
            => UNCHANGED reiterator_vars]_vars

\* a negative verdict came back from a direct call on an agent whose
\* reiterator exists, is disabled and has not moved
C25_Witness ==
    /\ AskEnded("direct")
    /\ reiterator_exists /\ ~reiterator_enabled
    /\ ask_result.type = "return"
    /\ ask_result.value.items["sentiment"] = PyStr("negative")
    /\ submits = 1 /\ polls = 1
    /\ runs = 0 /\ total_retries = 0

\* C26: with retry enabled, the caller of ask_human_rpc gets
\* ReiteratorMaxAttemptsError when the run ended on a negative verdict and
\* ReiteratorRateLimitError when it ended on a raising attempt.
C26_ExhaustionKinds ==
    AskEnded("reiterator")
    => /\ run_result.type = "ReiteratorMaxAttemptsError"
            => ask_result.type = "ReiteratorMaxAttemptsError"
       /\ run_result.type = "ReiteratorRateLimitError"
            => ask_result.type = "ReiteratorRateLimitError"

\* C27: a reiterator that exists is never discarded or replaced and keeps
\* its configuration; one is made, with the defaults, only by
\* enable_reiterator on an agent that has none; enable_reiterator and
\* disable_reiterator leave an existing reiterator's state, its session
\* retry count included, as it is.
C27_ReiteratorKept ==
    /\ [](constructions <= 1)
    /\ [][reiterator_exists
            => /\ reiterator_exists'
               /\ constructions' = constructions
               /\ UNCHANGED cfg_vars]_vars
    /\ [][~reiterator_exists /\ reiterator_exists'
            => /\ last_call' = "enable_reiterator"
               /\ constructions' = constructions + 1
               /\ max_attempts' = 3
               /\ backoff_strategy' = "exponential"
               /\ base_delay' = 1
               /\ total_retries' = 0]_vars
    /\ [][(/\ last_call' \in {"enable_reiterator", "disable_reiterator"}
            /\ last_call' # last_call)
            => /\ reiterator_enabled' = (last_call' = "enable_reiterator")
               /\ reiterator_exists => UNCHANGED reiterator_vars]_vars

\* after a run with a retry, during which the reiterator was disabled, it
\* is enabled again and is the one the agent was constructed with
C27_Witness ==
    /\ last_call = "enable_reiterator"
    /\ reiterator_enabled
    /\ disabled_in_run
    /\ ask_pc = "idle"
    /\ total_retries >= 1
    /\ max_attempts = 2 /\ backoff_strategy = "linear" /\ base_delay = 2
    /\ constructions = 1

\* C28: disable_reiterator changes nothing of a run in progress; a run
\* during which it was called ends as the policy it began with says: with
\* a verdict that is not negative, or after max_attempts calls with
\* ReiteratorMaxAttemptsError (last attempt negative) or
\* ReiteratorRateLimitError (last attempt raised).  An accepted call of
\* ask_human_rpc enters the reiterator exactly when it is enabled at the call.
C28_DisableInFlight ==
    /\ [][reiterator_enabled /\ ~reiterator_enabled'
            => UNCHANGED <<reiterator_vars, ask_pc, task_pc, task_outcome,
                           executions, submits, polls>>]_vars
    /\ []((AskEnded("reiterator") /\ disabled_in_run)
          => LET last == outcomes[Len(outcomes)]
             IN  /\ Len(outcomes) = Len(calls) /\ Len(calls) >= 1
                 /\ executions = Len(calls)
                 /\ \/ /\ run_result.type = "return"
                       /\ NonNegativeVerdict(last)
                       /\ ask_result = AskReturned(last.value, "reiterator", 361)
                    \/ /\ run_result.type = "ReiteratorMaxAttemptsError"
                       /\ Len(calls) = max_attempts
                       /\ NegativeVerdict(last)
                    \/ /\ run_result.type = "ReiteratorRateLimitError"
                       /\ Len(calls) = max_attempts
                       /\ AttemptRaised(last))
    /\ [][AskAccepted
            => (ask_pc' = "reiterator" <=> (reiterator_enabled /\ reiterator_exists))]_vars

\* a run that was disabled under way went on to its second, last attempt
C28_Witness ==
    /\ AskEnded("reiterator")
    /\ disabled_in_run
    /\ ~reiterator_enabled
    /\ max_attempts = 2
    /\ Len(calls) = 2
    /\ run_result.type = "ReiteratorMaxAttemptsError"
    /\ sleeps = <<2>>

\* a context as ask_human_rpc requires it: a dict whose data is a dict with
\* text in userQuery, agentConclusion and reasoning and a number from 0 to
\* 1 (held in hundredths) in confidence
RequiredContext(context) ==
    LET data == context.data
        Text(v) == v.ty = "str" /\ v.val \notin {"", "  "}
    IN  /\ context.ty = "dict"
        /\ context.has_data
        /\ context.data_ty = "dict"
        /\ Text(data["userQuery"])
        /\ Text(data["agentConclusion"])
        /\ Text(data["reasoning"])
        /\ data["confidence"].ty \in {"int", "float"}
        /\ data["confidence"].n >= 0
        /\ data["confidence"].n <= 100

\* C29: a call of ask_human_rpc whose context is absent or not as required
\* has ended in validation with HumanVerificationError: execute_task was
\* not called, nothing was submitted or polled, no run of the reiterator
\* began.
C29_FailFast ==
    (ask_context # NoContext /\ ~RequiredContext(ask_context))
    => /\ AskEnded("validation")
       /\ ask_result.type = "HumanVerificationError"
       /\ executions = 0 /\ submits = 0 /\ polls = 0
       /\ runs = ask_runs
       /\ pc = "idle"

(***************************************************************************)
(* Claims about invoices (RequestSpec).                                    *)
(***************************************************************************)
\* C30: every invoice that parse_invoice_from_response accepts has an
\* amount and a recipient that resolve: get_amount_lamports and
\* get_recipient do not raise on it.
C30_Resolvable ==
    invoice # NoInvoice
    => /\ get_amount_lamports(invoice.invoice_data).ok
       /\ get_recipient(invoice.invoice_data).ok


(***************************************************************************)
(* Claims about the constructor of Invoice (InvoiceSpec).                  *)
(***************************************************************************)
\* the call made was Invoice(raw_data) on an invoice object in an envelope
InvoiceCalled == applied.fn = "Invoice" /\ applied.envelope \in Envelopes

\* an invoice object as the data model has it: numbers in the amount
\* fields it has, of which it has one at least, a currency that is native
\* or a token, a recipient under one of the three names, a mint when the
\* currency is a token
WellFormedInvoice(fields) ==
    LET Text(v) == v.ty = "str" /\ Strip(v.val) # ""
    IN  /\ Has(fields, "amount") \/ Has(fields, "amountSOL")
        /\ \A k \in {"amount", "amountSOL"} :
              Has(fields, k) => fields[k].ty \in {"int", "float"}
        /\ get_currency(fields) \in {Ok("SOL"), Ok("USDC"), Ok("SPL")}
        /\ \E k \in {"recipient", "recipientWallet", "tokenAccount"} : Text(fields[k])
        /\ \A k \in {"recipient", "recipientWallet", "tokenAccount"} :
              Has(fields, k) => fields[k].ty = "str"
        /\ get_currency(fields) # Ok("SOL") => Text(fields["mint"])

\* C31: a well-formed invoice object is accepted in each of the four
\* envelopes, and currency, amount, recipient, mint, network and reference
\* of the Invoice are the same in all four: those of the object itself.
C31_EnvelopeIndependence ==
    (InvoiceCalled /\ WellFormedInvoice(applied.fields))
    => /\ applied.out.ok
       /\ applied.out.value.invoice_data = applied.fields
       /\ applied.descriptor = Descriptor(applied.fields)
       /\ applied.descriptor.amount.ok /\ applied.descriptor.recipient.ok
       /\ \A envelope \in Envelopes :
             Constructed(envelope, applied.fields,
                         Wrap(envelope, applied.fields)).descriptor
               = applied.descriptor

\* a token invoice on mainnet, with a reference, was parsed from the
\* "payment" envelope
C31_Witness ==
    /\ InvoiceCalled
    /\ applied.envelope = "payment"
    /\ WellFormedInvoice(applied.fields)
    /\ applied.descriptor.currency = Ok("USDC")
    /\ applied.descriptor.amount = Ok(5000)
    /\ applied.descriptor.recipient = Ok("MerchantTokenAccount")
    /\ applied.descriptor.mint = PyStr("UsdcMint")
    /\ applied.descriptor.network = Ok("mainnet-beta")
    /\ applied.descriptor.reference = PyStr("ref")

\* the field names an error message of invoices.py mentions
MentionedFields(text) ==
    CASE text = "Invoice must contain 'amount' or 'amountSOL' field" -> {"amount"}
      [] text = "Could not find valid recipient address" -> {"recipient"}
      [] text = "SPL token invoice must contain 'mint' field" -> {"mint"}
      [] OTHER -> {}

\* the constructor raised InvoiceValidationError mentioning the field
RejectedNaming(field) ==
    /\ ~applied.out.ok
    /\ applied.out.error = "InvoiceValidationError"
    /\ field \in MentionedFields(applied.out.text)

LacksAmount(fields) == ~Has(fields, "amount") /\ ~Has(fields, "amountSOL")
LacksRecipient(fields) ==
    \A k \in {"recipient", "recipientWallet", "tokenAccount"} : ~Has(fields, k)
NativeInvoice(fields) == get_currency(fields) = Ok("SOL")
TokenInvoice(fields) == get_currency(fields) \in {Ok("USDC"), Ok("SPL")}

\* C32 as stated: an invoice with neither amount field is rejected naming
\* "amount", a native-currency invoice with none of the recipient names
\* naming "recipient", a token invoice without a mint naming "mint".
C32_MissingField ==
    InvoiceCalled
    => /\ LacksAmount(applied.fields) => RejectedNaming("amount")
       /\ (NativeInvoice(applied.fields) /\ LacksRecipient(applied.fields))
            => RejectedNaming("recipient")
       /\ (TokenInvoice(applied.fields) /\ ~Has(applied.fields, "mint"))
            => RejectedNaming("mint")

\* C32, amended: the fields are checked in the order amount, recipient,
\* mint, and the error names the first that is missing.  An invoice with
\* neither amount field is rejected naming "amount"; an invoice of native
\* or token currency that has an amount field and none of the recipient
\* names is rejected naming "recipient"; a token invoice that has an
\* amount field and a recipient, and no mint, is rejected naming "mint".
C32_FirstMissingField ==
    InvoiceCalled
    => LET fields == applied.fields
       IN  /\ LacksAmount(fields) => RejectedNaming("amount")
           /\ (/\ ~LacksAmount(fields)
               /\ NativeInvoice(fields) \/ TokenInvoice(fields)
               /\ LacksRecipient(fields))
                => RejectedNaming("recipient")
           /\ (/\ ~LacksAmount(fields)
               /\ TokenInvoice(fields)
               /\ get_recipient(fields).ok
               /\ ~Has(fields, "mint"))
                => RejectedNaming("mint")

\* a token invoice with an amount and a token account, and no mint, was
\* rejected naming "mint"
C32_Witness ==
    /\ InvoiceCalled
    /\ applied.envelope = "invoice"
    /\ applied.fields["currency"] = PyStr("usdc")
    /\ applied.fields["amount"] = PyNum("int", 5000)
    /\ applied.fields["tokenAccount"] = PyStr("MerchantTokenAccount")
    /\ ~Has(applied.fields, "mint")
    /\ RejectedNaming("mint")


(***************************************************************************)
(* Claims about the submissions of one run (SubmitSpec).                   *)
(***************************************************************************)
\* C33: the request that opens an attempt is the same on every attempt:
\* the POST of the payload to the service with the headers as
\* ask_human_rpc made them, without X-PAYMENT; and the headers dict that
\* execute_task passes to request is never changed by it.
C33_SameSubmission ==
    req_calls >= 1
    => /\ sent[1] = HttpRequest("POST", HumanRpcUrl, TaskHeaders, TaskPayload)
       /\ sent[1].headers["X-PAYMENT"] = HeaderAbsent
       /\ headers = TaskHeaders


(***************************************************************************)
(* Further claims about request (RequestSpec).                             *)
(***************************************************************************)
\* C34: the resubmission has the method, url and body of the initial
\* request and its headers with one more, X-PAYMENT, which is the base64
\* of the JSON of an envelope with x402Version 1, scheme "solana", the
\* invoice's normalized network and the transaction that the agent's
\* wallet signed for the invoice's amount, recipient and currency.
C34_Resubmission ==
    Len(sent) >= 2
    => LET first == sent[1]
           second == sent[2]
           data == invoice.invoice_data
       IN  /\ Len(sent) = 2
           /\ second.method = first.method
           /\ second.url = first.url
           /\ second.body = first.body
           /\ first.headers["X-PAYMENT"] = HeaderAbsent
           /\ \A h \in HeaderNames \ {"X-PAYMENT"} :
                 second.headers[h] = first.headers[h]
           /\ serialized_tx.ok
           /\ second.headers["X-PAYMENT"] =
                 [kind |-> "payment", encoding |-> "base64 of JSON",
                  envelope |->
                    [x402Version |-> 1, scheme |-> "solana",
                     network |-> get_network(data).value,
                     payload |-> [serializedTransaction |-> serialized_tx.value]]]
           /\ get_network(data).value \in {"devnet", "mainnet-beta"}
           /\ serialized_tx.value.signed_by = AgentWallet
           /\ serialized_tx.value.amount = get_amount_lamports(data).value
           /\ serialized_tx.value.recipient = get_recipient(data).value
           /\ serialized_tx.value.currency = get_currency(data).value

\* a POST with an Accept header was resubmitted with a token payment on
\* mainnet
C34_Witness ==
    /\ Len(sent) = 2
    /\ sent[2].method = "POST"
    /\ sent[2].headers["Accept"] = HeaderText("application/json")
    /\ sent[2].headers["X-PAYMENT"].kind = "payment"
    /\ sent[2].headers["X-PAYMENT"].envelope.network = "mainnet-beta"
    /\ sent[2].headers["X-PAYMENT"].envelope.payload.serializedTransaction.currency
         = "USDC"
    /\ sent[2].headers["X-PAYMENT"].envelope.payload.serializedTransaction.amount
         = 1000


(***************************************************************************)
(* Further claims about the poller (PollSpec).                             *)
(***************************************************************************)
\* calls of wallet.get_signer made by the status queries of the poll, the
\* query under way included
WalletCallsOfPoll ==
    wallet_calls + (IF poll_pc = "waiting" THEN collaborators.get_signer ELSE 0)

\* the last status query ended on a transport failure: of the query itself,
\* or of its resubmission
QueryFailedInTransport ==
    /\ req_pc = "idle"
    /\ \/ req_result.type = "ConnectionError"
       \/ req_result.type = "PaymentError" /\ req_result.cause = "ConnectionError"

\* C38: a status query that failed in transport never ends the poll with
\* its error: the poller sleeps poll_interval and goes round the loop, where
\* it queries again or, the deadline reached, times out.
C38_TransportTransient ==
    (poll_pc \in {"sleeping", "done"} /\ QueryFailedInTransport)
    => \/ /\ poll_pc = "sleeping"
          /\ poll_sleeps[Len(poll_sleeps)] = poll_args.poll_interval
       \/ TimedOut /\ Len(poll_sleeps) >= 1

\* C35: the status queries of one submit-and-poll cycle call the wallet
\* once at most, whatever the server answers to them.
C35_OnePaymentPerCycle == WalletCallsOfPoll <= 1


(***************************************************************************)
(* Further claims about the facade (FacadeSpec).                           *)
(***************************************************************************)
\* the server's result says that the humans turned the conclusion down, in
\* approved or in consensus, its sentiment and decision not being negative
Disapproved(result) ==
    /\ result.ty = "dict"
    /\ \/ result.items["approved"] = PyBool(FALSE)
       \/ result.items["consensus"] = PyStr("negative")

\* C36: with retry enabled, a verdict whose server result has approved =
\* false or consensus = "negative" counts as negative: an attempt that
\* returns it is no attempt on which the run returns, so ask_human_rpc
\* never returns such a verdict from the reiterator.
C36_DisapprovedRetried ==
    (AskEnded("reiterator") /\ ask_result.type = "return")
    => ~Disapproved(ask_result.value.result)


(***************************************************************************)
(* Further claims about execute_with_retry (Spec).                         *)
(***************************************************************************)
\* the attempts of the run that ended with a negative verdict or an error
FailedAttempts ==
    {i \in 1..Len(outcomes) : NegativeVerdict(outcomes[i]) \/ AttemptRaised(outcomes[i])}

\* C37: current_attempt is from 0 to max_attempts in every state; while a
\* run is in progress it is the number of attempts of the run that ended
\* with a negative verdict or with an error; task_func is being called only
\* with current_attempt below max_attempts.
C37_AttemptIndex ==
    /\ current_attempt >= 0
    /\ current_attempt <= max_attempts
    /\ pc # "idle" => /\ active
                      /\ current_attempt = Cardinality(FailedAttempts)
                      /\ current_attempt = Len(outcomes)
    /\ pc = "in_task" => /\ current_attempt < max_attempts
                         /\ Len(calls) = current_attempt + 1

\* the third call of task_func is under way, after a negative verdict and
\* an error
C37_Witness ==
    /\ pc = "in_task"
    /\ max_attempts = 3
    /\ current_attempt = 2
    /\ Len(outcomes) = 2
    /\ NegativeVerdict(outcomes[1])
    /\ outcomes[2].kind = "raise"

(***************************************************************************)
(* Properties of session management.                                       *)
(***************************************************************************)

\* C39: once terminate_session has returned, session_id is null and stays
\* null, no further heartbeat is sent, and at most one DELETE has been sent
\* for the session, whatever the interleaving of the heartbeat thread with
\* terminate_session, a heartbeat in flight and a second call included.
C39_Teardown ==
    terminations > 0 =>
        /\ session_id = NoSession
        /\ late_heartbeats = 0
        /\ deletions <= 1


====
